---- MODULE Spec2Model ----
(***************************************************************************)
(* A model of madsim's simulated filesystem (madsim/src/fs.rs), of the     *)
(* simulated S3 service (madsim-aws-sdk-s3/src/server/service.rs), of the  *)
(* simulated etcd server (madsim-etcd-client/src/server.rs) and of the     *)
(* metadata and session names of madsim-tonic and madsim-aws-config.       *)
(*                                                                         *)
(* Every node (SocketAddr) owns a map from paths to INodes; an INode is a  *)
(* heap object (Arc<INode>) holding a byte vector; a File is a handle      *)
(* that shares an INode and carries a can_write flag.                      *)
(*                                                                         *)
(* The filesystem calls are made by tasks that the scheduler runs one at   *)
(* a time: a call runs to its end, its result is held in last until the    *)
(* calling task resumes, and the next call starts after that.              *)
(*                                                                         *)
(* A Rust panic unwinds the task and, through block_on, the simulation:    *)
(* it is modelled as the terminal result "Panic", after which no operation *)
(* runs.                                                                   *)
(*                                                                         *)
(* Spec: the calls of one host, each call one step.  SpecHosts: two hosts  *)
(* and local_handle.  SpecTasks: two tasks inside the calls of one File,   *)
(* statement by statement, meeting at the INode's RwLock.  SpecS3: two     *)
(* runs of the S3 service with one seed and the same requests; SpecS3Live  *)
(* adds that the loop of create_multipart_upload keeps turning.            *)
(* SpecParts: one upload with parts in any order.  SpecRanges:             *)
(* get_object with every form of range.  SpecDeletes: delete_objects       *)
(* beside delete_object.  SpecLifecycle: bucket lifecycles.  SpecServer: a *)
(* SimServer from its builder to one connection.  SpecEtcd: the handler    *)
(* tasks of two connections; SpecEtcdLive adds that a handler that can run *)
(* does run.  SpecObserve: one connection and the events of its observe    *)
(* stream.  SpecRpc: two runs of a simulation, each beside its own real    *)
(* clock.                                                                  *)
(***************************************************************************)
EXTENDS Integers, Sequences, FiniteSets, TLC

\* ------------------------------------------------------------------ bounds
MaxFiles == 2      \* File handles alive at the same time
MaxLen == 3        \* longest file content
MaxBuf == 2        \* longest caller buffer

\* the simulated hosts (socket addresses) and the paths used on them: the
\* host and the path of the crate's own test
Nodes == {"0.0.0.1:1"}
Paths == {"file"}
\* byte values: 0, which Vec::resize fills with, and another one
Byte == {0, 1}
FileIds == 1..MaxFiles
\* one heap cell per (node, path) and a spare one
MaxInodes == Cardinality(Nodes) * Cardinality(Paths) + 1
InodeIds == 1..MaxInodes

Bytes(n) == UNION {[1..k -> Byte] : k \in 0..n}

Min(a, b) == IF a < b THEN a ELSE b

\* ------------------------------------------------------------------- state
VARIABLES
    fs,       \* fs[n][p]: the INode of path p on node n, 0 when absent
    inodes,   \* the heap of INodes: inodes[i].data is the byte vector
    files,    \* the live File handles
    last,     \* the last call: its operation, arguments and result
    created,  \* history: the (node, path) pairs create was called for
    handles,  \* the addresses FileSystemHandle has a local handle for
    rw,       \* rw[i]: the RwLock around the byte vector of INode i
    tasks,    \* tasks[t]: where task t is inside a call on a File
    s3,       \* an S3Service, the random stream it draws from, its last reply
    twin,     \* the S3Service of a second run of the simulation
    etcd,     \* a SimServer, its service, its connections and their handlers
    rpc       \* rpc[r]: run r's real clock, response metadata, session name

vars == <<fs, inodes, files, last, created, handles, rw, tasks, s3, twin,
          etcd, rpc>>

\* the state outside the filesystem's maps, INodes and Files
others == <<rw, tasks, s3, twin, etcd, rpc>>

\* the state outside the S3 services
fsvars == <<fs, inodes, files, last, created, handles, rw, tasks,
            etcd, rpc>>

\* the state that the operations of File and FileSystemLocalHandle leave alone
elsewhere == <<handles, others>>

\* the tasks that call into one File concurrently
Tasks == {1, 2}

\* an RwLock that nobody holds
Unlocked == [writer |-> FALSE, readers |-> 0]

\* a task outside every call.  Inside a call: pc, the place in the code;
\* op, h, buf, off, len: the call and its arguments; n: the local len of
\* write_all_at; old: the bytes the INode held when the task took the write
\* lock
NoTask == [pc |-> "idle", op |-> "none", h |-> 0, buf |-> <<>>, off |-> 0,
           len |-> 0, n |-> 0, out |-> <<>>, old |-> <<>>]

\* a map without entries (BTreeMap::default())
EmptyMap == [x \in {} |-> 0]

\* a Range header value as split('=') and split_once('-') take it apart:
\* form "none": no header; "unit": a unit other than bytes; "noset": no '=';
\* "nodash": no '-'; "badnum": a bound that is no number; "span": begin-end,
\* where -1 stands for an empty bound
NoRange == [form |-> "none", begin |-> -1, end |-> -1]
NoPart == [some |-> FALSE, n |-> 0]

\* CompletedMultipartUpload { parts: None }
NoMultipart == [some |-> FALSE, parts |-> <<>>]

\* Option<String>::None for a prefix, Delete { objects: None }
NoPrefix == [some |-> FALSE, str |-> <<>>]
NoDelete == [some |-> FALSE, items |-> <<>>]

\* the reply to an S3 request: op, bucket, key, id, sent (the body sent),
\* range, part_number, multipart, prefix, delete: the request; res: "Ok",
\* the error or "Panic"; kind: the error kind, "Unhandled" for the errors
\* built with unhandled(); upload_id, e_tag, body, keys, sizes,
\* content_length, rules: the fields of the output.  NoReply: no reply
\* waits for its caller
NoReply == [op |-> "none", bucket |-> "", key |-> <<>>, id |-> "",
            sent |-> <<>>, range |-> NoRange, part_number |-> NoPart,
            multipart |-> NoMultipart, prefix |-> NoPrefix,
            delete |-> NoDelete, sizes |-> <<>>,
            res |-> "Ok", kind |-> "", upload_id |-> "", e_tag |-> "",
            body |-> <<>>, keys |-> <<>>, content_length |-> 0,
            rules |-> <<>>]

\* no call of create_multipart_upload is inside its loop
NoLoop == [on |-> FALSE, bucket |-> "", key |-> <<>>]

\* S3Service::new() beside a random stream that is at position r.  ended is
\* history: the uploads <<bucket, key, upload_id>> that a complete or an
\* abort has ended and no create_multipart_upload has issued again
NewService(r) == [storage |-> EmptyMap, lifecycle |-> EmptyMap, rng |-> r,
                  loop |-> NoLoop, reply |-> NoReply, ended |-> {}]

\* the connections that clients open to the SimServer
Conns == {1, 2}

\* an f32 in tenths, and the f32 that is no number
F32(v) == [nan |-> FALSE, tenths |-> v]
NaN == [nan |-> TRUE, tenths |-> 0]

\* Option<String>::None
NoData == [some |-> FALSE, data |-> ""]

\* SimServer::default(): #[derive(Default)] gives 0.0 and None
SimServer_default == [timeout_rate |-> F32(0), load |-> NoData]

\* no response: to, the id of the request answered; event: a
\* LeaderResponse of an observe stream; kv: the event's key-value
NoResponse == [to |-> 0, event |-> FALSE, kv |-> 0]

\* a connection nobody opened.  client: "idle", "open" or "closed"; sent:
\* the requests the client has sent; inbox: the requests in flight; pc:
\* the place of the handler task, "none" before it is spawned; request,
\* response: the locals of the handler; received: the requests rx.recv()
\* gave the handler; outbox: the responses tx.send() took; stream: the
\* events that wait in the handler's observe stream; events: all the
\* events that came into the stream; result: what the task returned
NoConn == [client |-> "idle", sent |-> 0, inbox |-> <<>>, pc |-> "none",
           request |-> <<>>, response |-> NoResponse, received |-> <<>>,
           outbox |-> <<>>, stream |-> <<>>, events |-> <<>>,
           result |-> "none"]

\* SimServer::builder(): state "builder" until serve, then "serving";
\* "Panic" after a failed assert, "Err" after serve has returned an error;
\* service: the arguments of EtcdService::new; published: the events the
\* service has produced
builder == [state |-> "builder", server |-> SimServer_default,
            service |-> SimServer_default,
            conn |-> [c \in Conns |-> NoConn], published |-> 0]

\* the runs of one simulation that are compared
Runs == {1, 2}

\* a run in which no metadata was appended and no session named.  wall:
\* the real time of the run, in half seconds since the epoch; request: the
\* metadata of the last request; response: the last response, its res and
\* its metadata; session: the last session name
NoRun == [wall |-> 0, request |-> <<>>,
          response |-> [res |-> "none", metadata |-> <<>>], session |-> ""]

\* no task is inside a call, no lock is held, no S3 request was made, no
\* SimServer configured, no metadata appended
OthersInit ==
    /\ rw = [i \in 1..MaxInodes |-> Unlocked]
    /\ tasks = [t \in Tasks |-> NoTask]
    /\ s3 = NewService(0)
    /\ twin = NewService(0)
    /\ etcd = builder
    /\ rpc = [r \in Runs |-> NoRun]

\* a heap cell that holds no INode
NoINode == [path |-> "", data |-> <<>>]

\* a handle slot that holds no File.  inode and can_write are the fields of
\* File; via, node and path record the call that returned the File
NoFile == [inode |-> 0, can_write |-> FALSE, via |-> "none", node |-> "",
           path |-> ""]

\* the record of a call: op, the arguments (node, path, h: the File, buf,
\* off, len: the buffer length of read_at or the size of set_len), the
\* result (res, n: the count read_at returns, out: the bytes it put in the
\* buffer) and oldlen: the length of the INode's bytes before a create,
\* write_all_at or set_len.  NoCall: no call has returned a result that its
\* task has not taken yet
NoCall == [op |-> "none", node |-> "", path |-> "", h |-> 0, buf |-> <<>>,
           off |-> 0, len |-> 0, res |-> "Ok", n |-> 0, out |-> <<>>,
           oldlen |-> 0]

Live(h) == files[h].inode # 0

Panicked == last.res = "Panic"

\* a task can make a call: no panic, and no result left to take
CanCall == ~Panicked /\ last = NoCall

\* the slot a new File is put in
FreeSlot == CHOOSE h \in FileIds : ~Live(h) /\ \A g \in FileIds : ~Live(g) => h <= g

HasFreeSlot == \E h \in FileIds : ~Live(h)

\* the heap has a cell left
HasFreshInode == \E i \in InodeIds : inodes[i] = NoINode

\* INode::new: a fresh heap object with an empty byte vector
INode_new(p) == [path |-> p, data |-> <<>>]

\* the address Arc::new returns: a heap cell that is not in use
FreshInode == CHOOSE i \in InodeIds :
                  inodes[i] = NoINode /\ \A j \in InodeIds : inodes[j] = NoINode => i <= j

\* a truncate that clears nothing
truncate_keep(inode) == inode

\* INode::truncate: data.clear()
truncate(inode) == [inode EXCEPT !.data = <<>>]

Init ==
    /\ fs = [n \in Nodes |-> [p \in Paths |-> 0]]
    /\ inodes = [i \in InodeIds |-> NoINode]
    /\ files = [h \in FileIds |-> NoFile]
    /\ last = NoCall
    /\ created = {}
    /\ handles = Nodes
    /\ OthersInit

\* ---------------------------------------------------- FileSystemLocalHandle
\* an open that gives the File a copy of the INode (copy-on-open)
open_copy(n, p) ==
    /\ CanCall
    /\ UNCHANGED elsewhere
    /\ IF fs[n][p] = 0
       THEN /\ last' = [NoCall EXCEPT !.op = "open", !.node = n, !.path = p,
                                      !.res = "NotFound"]
            /\ UNCHANGED <<fs, inodes, files, created>>
       ELSE /\ HasFreeSlot
            /\ HasFreshInode
            /\ inodes' = [inodes EXCEPT ![FreshInode] = inodes[fs[n][p]]]
            /\ files' = [files EXCEPT ![FreeSlot] =
                            [inode |-> FreshInode, can_write |-> FALSE,
                             via |-> "open", node |-> n, path |-> p]]
            /\ last' = [NoCall EXCEPT !.op = "open", !.node = n, !.path = p,
                                      !.h = FreeSlot]
            /\ UNCHANGED <<fs, created>>

\* an open that creates the missing path, as create does
open_or_create(n, p) ==
    /\ CanCall
    /\ UNCHANGED elsewhere
    /\ HasFreeSlot
    /\ IF fs[n][p] # 0
       THEN UNCHANGED <<fs, inodes>>
       ELSE /\ HasFreshInode
            /\ inodes' = [inodes EXCEPT ![FreshInode] = INode_new(p)]
            /\ fs' = [fs EXCEPT ![n][p] = FreshInode]
    /\ files' = [files EXCEPT ![FreeSlot] =
                    [inode |-> fs'[n][p], can_write |-> FALSE,
                     via |-> "open", node |-> n, path |-> p]]
    /\ last' = [NoCall EXCEPT !.op = "open", !.node = n, !.path = p,
                              !.h = FreeSlot]
    /\ UNCHANGED created

\* open: NotFound when the map has no entry, else a read-only File sharing
\* the entry's INode
open(n, p) ==
    /\ CanCall
    /\ UNCHANGED elsewhere
    /\ IF fs[n][p] = 0
       THEN /\ last' = [NoCall EXCEPT !.op = "open", !.node = n, !.path = p,
                                      !.res = "NotFound"]
            /\ UNCHANGED <<fs, inodes, files, created>>
       ELSE /\ HasFreeSlot
            /\ files' = [files EXCEPT ![FreeSlot] =
                            [inode |-> fs[n][p], can_write |-> FALSE,
                             via |-> "open", node |-> n, path |-> p]]
            /\ last' = [NoCall EXCEPT !.op = "open", !.node = n, !.path = p,
                                      !.h = FreeSlot]
            /\ UNCHANGED <<fs, inodes, created>>

\* a create that replaces the map's INode by a new one (insert, not
\* and_modify)
create_replace(n, p) ==
    /\ CanCall
    /\ UNCHANGED elsewhere
    /\ HasFreeSlot
    /\ HasFreshInode
    /\ inodes' = [inodes EXCEPT ![FreshInode] = INode_new(p)]
    /\ fs' = [fs EXCEPT ![n][p] = FreshInode]
    /\ files' = [files EXCEPT ![FreeSlot] =
                    [inode |-> fs'[n][p], can_write |-> TRUE,
                     via |-> "create", node |-> n, path |-> p]]
    /\ last' = [NoCall EXCEPT !.op = "create", !.node = n, !.path = p,
                              !.h = FreeSlot,
                              !.oldlen = IF fs[n][p] # 0
                                           THEN Len(inodes[fs[n][p]].data)
                                           ELSE 0]
    /\ created' = created \cup {<<n, p>>}

\* create: entry(path).and_modify(truncate).or_insert_with(INode::new),
\* and a writable File sharing that INode
create(n, p) ==
    /\ CanCall
    /\ UNCHANGED elsewhere
    /\ HasFreeSlot
    /\ IF fs[n][p] # 0
       THEN /\ inodes' = [inodes EXCEPT ![fs[n][p]] = truncate(@)]
            /\ fs' = fs
       ELSE /\ HasFreshInode
            /\ inodes' = [inodes EXCEPT ![FreshInode] = INode_new(p)]
            /\ fs' = [fs EXCEPT ![n][p] = FreshInode]
    /\ files' = [files EXCEPT ![FreeSlot] =
                    [inode |-> fs'[n][p], can_write |-> TRUE,
                     via |-> "create", node |-> n, path |-> p]]
    /\ last' = [NoCall EXCEPT !.op = "create", !.node = n, !.path = p,
                              !.h = FreeSlot,
                              !.oldlen = IF fs[n][p] # 0
                                           THEN Len(inodes[fs[n][p]].data)
                                           ELSE 0]
    /\ created' = created \cup {<<n, p>>}

\* --------------------------------------------------------------------- File
\* a read that always reports the whole buffer as filled
ReadAt_full(data, blen, offset) ==
    IF Len(data) < offset
    THEN [res |-> "Panic", n |-> 0, out |-> <<>>]
    ELSE [res |-> "Ok", n |-> blen,
          out |-> SubSeq(data, offset + 1, Min(Len(data), offset + blen))]

\* read_at's arithmetic: end = min(data.len(), offset + buf.len());
\* len = end - offset.  When offset > data.len() the subtraction underflows:
\* a debug build panics there, a release build wraps and panics at the
\* slice data[offset..end], whose start is past its end.
ReadAt(data, blen, offset) ==
    LET end == Min(Len(data), offset + blen)
    IN  IF end < offset
        THEN [res |-> "Panic", n |-> 0, out |-> <<>>]
        ELSE [res |-> "Ok", n |-> end - offset,
              out |-> SubSeq(data, offset + 1, end)]

read_at(h, blen, offset) ==
    /\ CanCall
    /\ UNCHANGED elsewhere
    /\ Live(h)
    /\ LET r == ReadAt(inodes[files[h].inode].data, blen, offset)
       IN  last' = [NoCall EXCEPT !.op = "read_at", !.h = h, !.len = blen,
                                  !.off = offset, !.res = r.res, !.n = r.n,
                                  !.out = r.out]
    /\ UNCHANGED <<fs, inodes, files, created>>

\* a write that appends buf instead of placing it at offset
WriteAllAt_append(data, buf, offset) ==
    IF Len(data) < offset THEN [res |-> "Panic", data |-> data]
                          ELSE [res |-> "Ok", data |-> data \o buf]

\* a write that cuts the vector at the end of the written range
WriteAllAt_cut(data, buf, offset) ==
    IF Len(data) < offset THEN [res |-> "Panic", data |-> data]
                          ELSE [res |-> "Ok", data |-> SubSeq(data, 1, offset) \o buf]

\* write_all_at's arithmetic on the byte vector, as read_at's: the overlap
\* data[offset..end] is overwritten with buf[..len], the rest of buf is
\* appended.  When offset > data.len() the subtraction underflows (debug
\* build) or the slice data[offset..end] starts past its end (release
\* build): a panic in both, before the vector is touched.
WriteAllAt(data, buf, offset) ==
    LET end == Min(Len(data), offset + Len(buf))
        len == end - offset
    IN  IF end < offset
        THEN [res |-> "Panic", data |-> data]
        ELSE [res |-> "Ok",
              data |-> [i \in 1..Len(data) |->
                           IF offset < i /\ i <= end THEN buf[i - offset]
                                                     ELSE data[i]]
                       \o (IF len < Len(buf) THEN SubSeq(buf, len + 1, Len(buf))
                                             ELSE <<>>)]

\* a write_all_at that does not look at can_write
write_all_at_unchecked(h, buf, offset) ==
    /\ CanCall
    /\ UNCHANGED elsewhere
    /\ Live(h)
    /\ LET w == WriteAllAt(inodes[files[h].inode].data, buf, offset)
       IN  /\ Len(w.data) <= MaxLen
           /\ inodes' = [inodes EXCEPT ![files[h].inode].data = w.data]
           /\ last' = [NoCall EXCEPT !.op = "write_all_at", !.h = h,
                                     !.buf = buf, !.off = offset,
                                     !.res = w.res,
                                     !.oldlen = Len(inodes[files[h].inode].data)]
           /\ UNCHANGED <<fs, files, created>>

write_all_at(h, buf, offset) ==
    /\ CanCall
    /\ UNCHANGED elsewhere
    /\ Live(h)
    /\ IF ~files[h].can_write
       THEN /\ last' = [NoCall EXCEPT !.op = "write_all_at", !.h = h,
                                      !.buf = buf, !.off = offset,
                                      !.res = "PermissionDenied"]
            /\ UNCHANGED <<fs, inodes, files, created>>
       ELSE LET w == WriteAllAt(inodes[files[h].inode].data, buf, offset)
            IN  /\ Len(w.data) <= MaxLen
                /\ inodes' = [inodes EXCEPT ![files[h].inode].data = w.data]
                /\ last' = [NoCall EXCEPT !.op = "write_all_at", !.h = h,
                                          !.buf = buf, !.off = offset,
                                          !.res = w.res,
                                          !.oldlen = Len(inodes[files[h].inode].data)]
                /\ UNCHANGED <<fs, files, created>>

\* a resize that cuts but never grows
Resize_cut(data, size) ==
    IF size <= Len(data) THEN SubSeq(data, 1, size) ELSE data

\* Vec::resize(size, 0): cut to size, or append zero bytes up to size
Resize(data, size) ==
    IF size <= Len(data) THEN SubSeq(data, 1, size)
                         ELSE data \o [i \in 1..(size - Len(data)) |-> 0]

\* set_len: resizes through any handle (the code does not look at can_write)
set_len(h, size) ==
    /\ CanCall
    /\ UNCHANGED elsewhere
    /\ Live(h)
    /\ inodes' = [inodes EXCEPT ![files[h].inode].data = Resize(@, size)]
    /\ last' = [NoCall EXCEPT !.op = "set_len", !.h = h, !.len = size,
                              !.oldlen = Len(inodes[files[h].inode].data)]
    /\ UNCHANGED <<fs, files, created>>

\* a sync_all that refuses handles opened read-only
sync_all_writers(h) ==
    /\ CanCall
    /\ UNCHANGED elsewhere
    /\ Live(h)
    /\ last' = [NoCall EXCEPT !.op = "sync_all", !.h = h,
                              !.res = IF files[h].can_write THEN "Ok"
                                      ELSE "PermissionDenied"]
    /\ UNCHANGED <<fs, inodes, files, created>>

\* sync_all: returns Ok
sync_all(h) ==
    /\ CanCall
    /\ UNCHANGED elsewhere
    /\ Live(h)
    /\ last' = [NoCall EXCEPT !.op = "sync_all", !.h = h]
    /\ UNCHANGED <<fs, inodes, files, created>>

\* a drop that unlinks the path together with the handle
drop_unlink(h) ==
    /\ CanCall
    /\ UNCHANGED elsewhere
    /\ Live(h)
    /\ files' = [files EXCEPT ![h] = NoFile]
    /\ fs' = [fs EXCEPT ![files[h].node][files[h].path] = 0]
    /\ last' = [NoCall EXCEPT !.op = "drop", !.h = h]
    /\ UNCHANGED <<inodes, created>>

\* drop(file): the handle goes away, the INode stays in the map
drop(h) ==
    /\ CanCall
    /\ UNCHANGED elsewhere
    /\ Live(h)
    /\ files' = [files EXCEPT ![h] = NoFile]
    /\ last' = [NoCall EXCEPT !.op = "drop", !.h = h]
    /\ UNCHANGED <<fs, inodes, created>>

\* the calling task takes the result and goes on
resume ==
    /\ ~Panicked
    /\ UNCHANGED elsewhere
    /\ last # NoCall
    /\ last' = NoCall
    /\ UNCHANGED <<fs, inodes, files, created>>

\* a local_handle that always builds a new FileSystemLocalHandle
local_handle_insert(addr) ==
    /\ CanCall
    /\ handles' = handles \cup {addr}
    /\ UNCHANGED others
    /\ fs' = [fs EXCEPT ![addr] = [p \in Paths |-> 0]]
    /\ last' = [NoCall EXCEPT !.op = "local_handle", !.node = addr]
    /\ UNCHANGED <<inodes, files, created>>

\* local_handle(addr): entry(addr).or_insert_with(new): the handle of addr,
\* built with an empty path map the first time addr is asked for
local_handle(addr) ==
    /\ CanCall
    /\ handles' = handles \cup {addr}
    /\ UNCHANGED others
    /\ fs' = IF addr \in handles THEN fs
                                ELSE [fs EXCEPT ![addr] = [p \in Paths |-> 0]]
    /\ last' = [NoCall EXCEPT !.op = "local_handle", !.node = addr]
    /\ UNCHANGED <<inodes, files, created>>

\* power_fail(addr): the body is todo!(), which panics
power_fail(addr) ==
    /\ CanCall
    /\ UNCHANGED elsewhere
    /\ last' = [NoCall EXCEPT !.op = "power_fail", !.node = addr,
                              !.res = "Panic"]
    /\ UNCHANGED <<fs, inodes, files, created>>

Next ==
    \/ \E n \in Nodes, p \in Paths : open(n, p)
    \/ \E n \in Nodes, p \in Paths : create(n, p)
    \/ \E h \in FileIds, blen \in 0..MaxBuf, offset \in 0..MaxLen :
           read_at(h, blen, offset)
    \/ \E h \in FileIds, buf \in Bytes(MaxBuf), offset \in 0..MaxLen :
           write_all_at(h, buf, offset)
    \/ \E h \in FileIds, size \in 0..MaxLen : set_len(h, size)
    \/ \E h \in FileIds : sync_all(h)
    \/ \E h \in FileIds : drop(h)
    \/ \E n \in Nodes : power_fail(n)
    \/ resume

Spec == Init /\ [][Next]_vars

\* ------------------------------------------------- two simulated hosts
\* the addresses of two hosts of one runtime
Hosts == {"0.0.0.1:1", "0.0.0.2:1"}

\* the longest file of the runs with two hosts
MaxLenHosts == 1

\* no File of host n is alive
NoFileOf(n) == \A h \in FileIds : files[h].node # n

\* a runtime that no local handle was asked of yet
InitHosts ==
    /\ fs = [n \in Hosts |-> [p \in Paths |-> 0]]
    /\ inodes = [i \in InodeIds |-> NoINode]
    /\ files = [h \in FileIds |-> NoFile]
    /\ last = NoCall
    /\ created = {}
    /\ handles = {}
    /\ OthersInit

\* the tasks of the two hosts, one File at a time each
NextHosts ==
    \/ \E a \in Hosts : local_handle(a)
    \/ \E n \in handles, p \in Paths : NoFileOf(n) /\ open(n, p)
    \/ \E n \in handles, p \in Paths : NoFileOf(n) /\ create(n, p)
    \/ \E h \in FileIds, blen \in 0..MaxLenHosts, offset \in 0..MaxLenHosts :
           read_at(h, blen, offset)
    \/ \E h \in FileIds, buf \in Bytes(MaxLenHosts), offset \in 0..MaxLenHosts :
           /\ write_all_at(h, buf, offset)
           /\ Len(inodes'[files[h].inode].data) <= MaxLenHosts
    \/ \E h \in FileIds, size \in 0..MaxLenHosts : set_len(h, size)
    \/ \E h \in FileIds : drop(h)
    \/ resume

SpecHosts == InitHosts /\ [][NextHosts]_vars

\* ------------------------------------- tasks inside the calls of one File
\* Here a call is not one step: the tasks run statement by statement, in
\* any interleaving, and meet at the RwLock of the INode.

\* the longest file of the runs with concurrent tasks
MaxLenTasks == 2

\* the buffer of k bytes that the tasks write
Fill(k) == [i \in 1..k |-> 1]

\* the state after create("file"): one INode, one writable File
InitTasks ==
    /\ fs = [n \in Nodes |-> [p \in Paths |-> 1]]
    /\ inodes = [i \in InodeIds |-> IF i = 1 THEN INode_new("file")
                                              ELSE NoINode]
    /\ files = [h \in FileIds |->
                   IF h = 1 THEN [inode |-> 1, can_write |-> TRUE,
                                  via |-> "create", node |-> "0.0.0.1:1",
                                  path |-> "file"]
                            ELSE NoFile]
    /\ last = NoCall
    /\ created = {<<"0.0.0.1:1", "file">>}
    /\ handles = Nodes
    /\ OthersInit

\* the INode behind the File of task t's call
INodeOf(t) == files[tasks[t].h].inode

\* task t enters a call on File h.  write_all_at looks at can_write before
\* it asks for the lock
call(t, op, h, buf, offset, len) ==
    /\ ~Panicked
    /\ tasks[t].pc = "idle"
    /\ Live(h)
    /\ tasks' = [tasks EXCEPT ![t] =
                    IF op = "write_all_at" /\ ~files[h].can_write
                    THEN NoTask
                    ELSE [NoTask EXCEPT !.pc = "lock", !.op = op, !.h = h,
                                        !.buf = buf, !.off = offset,
                                        !.len = len]]
    /\ UNCHANGED <<fs, inodes, files, last, created, handles, rw, s3, twin,
                   etcd, rpc>>

\* a read lock that does not wait for the writer
data_read_unguarded(t) ==
    /\ ~Panicked
    /\ tasks[t].pc = "lock"
    /\ tasks[t].op \in {"read_at", "read"}
    /\ rw' = [rw EXCEPT ![INodeOf(t)].readers = @ + 1]
    /\ tasks' = [tasks EXCEPT ![t].pc = "body"]
    /\ UNCHANGED <<fs, inodes, files, last, created, handles, s3, twin,
                   etcd, rpc>>

\* inode.data.read(): granted while no task holds the write lock
data_read(t) ==
    /\ ~Panicked
    /\ tasks[t].pc = "lock"
    /\ tasks[t].op \in {"read_at", "read"}
    /\ ~rw[INodeOf(t)].writer
    /\ rw' = [rw EXCEPT ![INodeOf(t)].readers = @ + 1]
    /\ tasks' = [tasks EXCEPT ![t].pc = "body"]
    /\ UNCHANGED <<fs, inodes, files, last, created, handles, s3, twin,
                   etcd, rpc>>

\* inode.data.write(): granted while no task holds the lock at all
data_write(t) ==
    /\ ~Panicked
    /\ tasks[t].pc = "lock"
    /\ tasks[t].op \in {"write_all_at", "set_len"}
    /\ ~rw[INodeOf(t)].writer
    /\ rw[INodeOf(t)].readers = 0
    /\ rw' = [rw EXCEPT ![INodeOf(t)].writer = TRUE]
    /\ tasks' = [tasks EXCEPT ![t].pc = "body",
                              ![t].old = inodes[INodeOf(t)].data]
    /\ UNCHANGED <<fs, inodes, files, last, created, handles, s3, twin,
                   etcd, rpc>>

\* the body of read_at, and of fs::read, which clones the whole vector
read_body(t) ==
    /\ ~Panicked
    /\ tasks[t].pc = "body"
    /\ tasks[t].op \in {"read_at", "read"}
    /\ LET data == inodes[INodeOf(t)].data
           r == IF tasks[t].op = "read"
                THEN [res |-> "Ok", n |-> Len(data), out |-> data]
                ELSE ReadAt(data, tasks[t].len, tasks[t].off)
       IN  IF r.res = "Panic"
           THEN /\ last' = [NoCall EXCEPT !.op = "read_at", !.res = "Panic"]
                /\ UNCHANGED tasks
           ELSE /\ tasks' = [tasks EXCEPT ![t].pc = "ret", ![t].n = r.n,
                                          ![t].out = r.out]
                /\ UNCHANGED last
    /\ UNCHANGED <<fs, inodes, files, created, handles, rw, s3, twin,
                   etcd, rpc>>

\* write_all_at up to data[offset..end].copy_from_slice(&buf[..len])
copy_from_slice(t) ==
    /\ ~Panicked
    /\ tasks[t].pc = "body"
    /\ tasks[t].op = "write_all_at"
    /\ LET data == inodes[INodeOf(t)].data
           offset == tasks[t].off
           end == Min(Len(data), offset + Len(tasks[t].buf))
       IN  IF end < offset
           THEN /\ last' = [NoCall EXCEPT !.op = "write_all_at",
                                          !.res = "Panic"]
                /\ UNCHANGED <<tasks, inodes>>
           ELSE /\ inodes' = [inodes EXCEPT ![INodeOf(t)].data =
                                 [i \in 1..Len(data) |->
                                     IF offset < i /\ i <= end
                                     THEN tasks[t].buf[i - offset]
                                     ELSE data[i]]]
                /\ tasks' = [tasks EXCEPT ![t].pc = "extend",
                                          ![t].n = end - offset]
                /\ UNCHANGED last
    /\ UNCHANGED <<fs, files, created, handles, rw, s3, twin, etcd, rpc>>

\* if len < buf.len() { data.extend_from_slice(&buf[len..]) }
extend_from_slice(t) ==
    /\ ~Panicked
    /\ tasks[t].pc = "extend"
    /\ inodes' = [inodes EXCEPT ![INodeOf(t)].data =
                     IF tasks[t].n < Len(tasks[t].buf)
                     THEN @ \o SubSeq(tasks[t].buf, tasks[t].n + 1,
                                      Len(tasks[t].buf))
                     ELSE @]
    /\ tasks' = [tasks EXCEPT ![t].pc = "ret"]
    /\ UNCHANGED <<fs, files, last, created, handles, rw, s3, twin, etcd, rpc>>

\* set_len's data.resize(size, 0)
resize(t) ==
    /\ ~Panicked
    /\ tasks[t].pc = "body"
    /\ tasks[t].op = "set_len"
    /\ inodes' = [inodes EXCEPT ![INodeOf(t)].data = Resize(@, tasks[t].len)]
    /\ tasks' = [tasks EXCEPT ![t].pc = "ret"]
    /\ UNCHANGED <<fs, files, last, created, handles, rw, s3, twin, etcd, rpc>>

\* the call returns: its lock guard goes out of scope
ret(t) ==
    /\ ~Panicked
    /\ tasks[t].pc = "ret"
    /\ rw' = [rw EXCEPT ![INodeOf(t)] =
                 IF tasks[t].op \in {"read_at", "read"}
                 THEN [@ EXCEPT !.readers = @ - 1]
                 ELSE [@ EXCEPT !.writer = FALSE]]
    /\ tasks' = [tasks EXCEPT ![t] = NoTask]
    /\ UNCHANGED <<fs, inodes, files, last, created, handles, s3, twin,
                   etcd, rpc>>

NextTasks ==
    \/ \E t \in Tasks, h \in FileIds, blen \in 0..MaxLenTasks,
          offset \in 0..MaxLenTasks :
           call(t, "read_at", h, <<>>, offset, blen)
    \/ \E t \in Tasks, h \in FileIds : call(t, "read", h, <<>>, 0, 0)
    \/ \E t \in Tasks, h \in FileIds, k \in 0..MaxLenTasks,
          offset \in 0..MaxLenTasks :
           /\ offset + k <= MaxLenTasks
           /\ call(t, "write_all_at", h, Fill(k), offset, 0)
    \/ \E t \in Tasks, h \in FileIds, size \in 0..MaxLenTasks :
           call(t, "set_len", h, <<>>, 0, size)
    \/ \E t \in Tasks : data_read(t)
    \/ \E t \in Tasks : data_write(t)
    \/ \E t \in Tasks : read_body(t)
    \/ \E t \in Tasks : copy_from_slice(t)
    \/ \E t \in Tasks : extend_from_slice(t)
    \/ \E t \in Tasks : resize(t)
    \/ \E t \in Tasks : ret(t)

SpecTasks == InitTasks /\ [][NextTasks]_vars
\* ------------------------------------------------------------ S3 service
\* (madsim-aws-sdk-s3/src/server/service.rs)
\* A service value sv holds the fields of ServiceInner that the object
\* requests use (storage), the position of the random stream (rng), the
\* call of create_multipart_upload that is inside its loop (loop) and the
\* reply that waits for its caller (reply).  Maps are functions whose DOMAIN
\* is the set of keys present; object keys are sequences of characters.

\* the characters of the object keys, in byte order
Alphabet == <<"a", "b">>
Buckets == {"bucket"}
Keys == {<<"a">>, <<"a", "b">>}
\* the keys that the multipart requests of the runs name
UploadKeys == {<<"a">>}

\* the values that the random stream yields, over and over: gen::<u32>()
\* reduced to two values, so that a drawn identifier can be one that exists
Stream == <<0, 0, 1, 1>>

\* the wall clock or the operating system's entropy: what a run could read
\* instead of the random stream, and what differs from run to run
Entropy == {0, 1}

\* u32::to_string
to_string(v) == ToString(v)

\* thread_rng().gen::<u32>(): the value at position r, and the next position
gen_u32(r) == [value |-> Stream[r + 1], rng |-> (r + 1) % Len(Stream)]

\* the upload ids a caller can name: the ones the service can hand out
UploadIds == {to_string(Stream[i]) : i \in 1..Len(Stream)}

\* BTreeMap::insert, ::remove
Put(m, k, v) == [x \in DOMAIN m \cup {k} |-> IF x = k THEN v ELSE m[x]]
Remove(m, k) == [x \in DOMAIN m \ {k} |-> m[x]]

\* Object::default()
Object_default == [body |-> <<>>, completed |-> FALSE, parts |-> EmptyMap,
                   content_length |-> 0]

\* the reply to request op before its outcome is filled in
Request(op, bucket, key, id) ==
    [NoReply EXCEPT !.op = op, !.bucket = bucket, !.key = key, !.id = id]

\* the service returns Err: storage is as it was
Fail(sv, q, res, kind) ==
    [sv EXCEPT !.reply = [q EXCEPT !.res = res, !.kind = kind]]

\* the service panics
PanicIn(sv, q) == [sv EXCEPT !.reply = [q EXCEPT !.res = "Panic"]]

\* the service is between requests: no reply waits, no call holds the Mutex
Ready(sv) == sv.reply = NoReply /\ ~sv.loop.on

\* a create_bucket that inserts an empty bucket over the one it finds
create_bucket_replace(sv, name) ==
    [sv EXCEPT !.storage = Put(@, name, EmptyMap),
               !.reply = Request("create_bucket", name, <<>>, "")]

\* create_bucket: panics when the name is taken, else inserts an empty bucket
create_bucket(sv, name) ==
    LET q == Request("create_bucket", name, <<>>, "")
    IN  IF name \in DOMAIN sv.storage
        THEN PanicIn(sv, q)
        ELSE [sv EXCEPT !.storage = Put(@, name, EmptyMap), !.reply = q]

\* create_multipart_upload up to its loop: the bucket is looked up and the
\* object entry is taken or made (entry(key).or_default())
create_multipart_upload(sv, bucket, key) ==
    LET q == Request("create_multipart_upload", bucket, key, "")
    IN  IF bucket \notin DOMAIN sv.storage
        THEN Fail(sv, q, "NoSuchBucket", "Unhandled")
        ELSE [sv EXCEPT !.storage[bucket] =
                            IF key \in DOMAIN @ THEN @
                                                ELSE Put(@, key, Object_default),
                        !.loop = [on |-> TRUE, bucket |-> bucket, key |-> key]]

\* one turn of a loop that inserts the drawn id whether it is pending or not
loop_turn_insert(sv, e) ==
    LET g == gen_u32(sv.rng)
        upload_id == to_string(g.value)
    IN  [sv EXCEPT !.rng = g.rng,
                   !.storage[sv.loop.bucket][sv.loop.key].parts =
                       Put(@, upload_id, <<>>),
                   !.loop = NoLoop,
                   !.ended = @ \ {<<sv.loop.bucket, sv.loop.key, upload_id>>},
                   !.reply = [Request("create_multipart_upload",
                                      sv.loop.bucket, sv.loop.key, "")
                                 EXCEPT !.upload_id = upload_id]]

\* one turn of create_multipart_upload's loop: an id is drawn; if the object
\* has it pending the loop goes round, else the id is inserted with no parts
\* and returned.  e, the run's entropy, is not read
loop_turn(sv, e) ==
    LET g == gen_u32(sv.rng)
        upload_id == to_string(g.value)
    IN  IF upload_id \in DOMAIN sv.storage[sv.loop.bucket][sv.loop.key].parts
        THEN [sv EXCEPT !.rng = g.rng]
        ELSE [sv EXCEPT !.rng = g.rng,
                        !.storage[sv.loop.bucket][sv.loop.key].parts =
                            Put(@, upload_id, <<>>),
                        !.loop = NoLoop,
                        !.ended = @ \ {<<sv.loop.bucket, sv.loop.key,
                                         upload_id>>},
                        !.reply = [Request("create_multipart_upload",
                                           sv.loop.bucket, sv.loop.key, "")
                                      EXCEPT !.upload_id = upload_id]]

\* an upload_part that takes its e_tag from the run's entropy
upload_part_entropy(sv, bucket, key, body, part_number, upload_id, e) ==
    LET q == [Request("upload_part", bucket, key, upload_id)
                 EXCEPT !.sent = body]
    IN  IF bucket \notin DOMAIN sv.storage
        THEN Fail(sv, q, "NoSuchBucket", "Unhandled")
        ELSE IF key \notin DOMAIN sv.storage[bucket]
        THEN Fail(sv, q, "NoSuchKey", "Unhandled")
        ELSE IF upload_id \notin DOMAIN sv.storage[bucket][key].parts
        THEN Fail(sv, q, "NoSuchUpload", "Unhandled")
        ELSE LET e_tag == to_string(e)
             IN  [sv EXCEPT !.storage[bucket][key].parts[upload_id] =
                                Append(@, [part_number |-> part_number,
                                           body |-> body, e_tag |-> e_tag]),
                            !.reply = [q EXCEPT !.e_tag = e_tag]]

\* an upload_part that makes the object and the upload it does not find
upload_part_or_default(sv, bucket, key, body, part_number, upload_id, e) ==
    LET q == [Request("upload_part", bucket, key, upload_id)
                 EXCEPT !.sent = body]
    IN  IF bucket \notin DOMAIN sv.storage
        THEN Fail(sv, q, "NoSuchBucket", "Unhandled")
        ELSE LET g == gen_u32(sv.rng)
                 e_tag == to_string(g.value)
                 part == [part_number |-> part_number, body |-> body,
                          e_tag |-> e_tag]
                 o == IF key \in DOMAIN sv.storage[bucket]
                      THEN sv.storage[bucket][key] ELSE Object_default
                 list == IF upload_id \in DOMAIN o.parts
                         THEN o.parts[upload_id] ELSE <<>>
             IN  [sv EXCEPT !.rng = g.rng,
                            !.storage[bucket] =
                                Put(@, key, [o EXCEPT !.parts =
                                    Put(@, upload_id, Append(list, part))]),
                            !.reply = [q EXCEPT !.e_tag = e_tag]]

\* upload_part: bucket, key and upload id are looked up with get_mut; the
\* e_tag is drawn from the random stream and the part is pushed at the end of
\* the upload's parts.  e, the run's entropy, is not read
upload_part(sv, bucket, key, body, part_number, upload_id, e) ==
    LET q == [Request("upload_part", bucket, key, upload_id)
                 EXCEPT !.sent = body]
    IN  IF bucket \notin DOMAIN sv.storage
        THEN Fail(sv, q, "NoSuchBucket", "Unhandled")
        ELSE IF key \notin DOMAIN sv.storage[bucket]
        THEN Fail(sv, q, "NoSuchKey", "Unhandled")
        ELSE IF upload_id \notin DOMAIN sv.storage[bucket][key].parts
        THEN Fail(sv, q, "NoSuchUpload", "Unhandled")
        ELSE LET g == gen_u32(sv.rng)
                 e_tag == to_string(g.value)
             IN  [sv EXCEPT !.rng = g.rng,
                            !.storage[bucket][key].parts[upload_id] =
                                Append(@, [part_number |-> part_number,
                                           body |-> body, e_tag |-> e_tag]),
                            !.reply = [q EXCEPT !.e_tag = e_tag]]

\* multipart.sort_by_key(|part| part.part_number): a stable sort
RECURSIVE sort_by_key(_)
sort_by_key(parts) ==
    IF parts = <<>> THEN <<>>
    ELSE LET rest == sort_by_key(Tail(parts))
             x == Head(parts)
             before == {i \in 1..Len(rest) :
                           rest[i].part_number < x.part_number}
             n == Cardinality(before)
         IN  SubSeq(rest, 1, n) \o <<x>> \o SubSeq(rest, n + 1, Len(rest))

\* selection_idx.sort()
RECURSIVE sort(_)
sort(idx) ==
    IF idx = <<>> THEN <<>>
    ELSE LET rest == sort(Tail(idx))
             n == Cardinality({i \in 1..Len(rest) : rest[i] < Head(idx)})
         IN  SubSeq(rest, 1, n) \o <<Head(idx)>> \o SubSeq(rest, n + 1, Len(rest))

\* the index of the first uploaded part that a completed part selects: the
\* same part number, and the same e_tag if the completed part names one;
\* 0 when there is none (indices count from 1 here)
Selected(parts, completed_part) ==
    LET hits == {i \in 1..Len(parts) :
                    /\ parts[i].part_number = completed_part.part_number
                    /\ (completed_part.e_tag.some =>
                            completed_part.e_tag.tag = parts[i].e_tag)}
    IN  IF hits = {} THEN 0
        ELSE CHOOSE i \in hits : \A j \in hits : i <= j

\* selection_idx: one index for every completed part that selects a part
RECURSIVE selection_idx(_, _)
selection_idx(parts, multipart) ==
    IF multipart = <<>> THEN <<>>
    ELSE LET i == Selected(parts, Head(multipart))
         IN  (IF i = 0 THEN <<>> ELSE <<i>>)
                 \o selection_idx(parts, Tail(multipart))

\* the walk over the uploaded parts from index idx on: a part is appended
\* when its index is the front of the queue; the walk ends with the queue
RECURSIVE extend(_, _, _)
extend(parts, idx, queue) ==
    IF idx > Len(parts) \/ queue = <<>> THEN <<>>
    ELSE IF Head(queue) # idx THEN extend(parts, idx + 1, queue)
    ELSE parts[idx].body \o extend(parts, idx + 1, Tail(queue))

\* complete_multipart_upload.  multipart.parts is [some, parts]
complete_multipart_upload(sv, bucket, key, multipart, upload_id) ==
    LET q == [Request("complete_multipart_upload", bucket, key, upload_id)
                 EXCEPT !.multipart = multipart]
    IN  IF bucket \notin DOMAIN sv.storage
        THEN Fail(sv, q, "NoSuchBucket", "Unhandled")
        ELSE IF key \notin DOMAIN sv.storage[bucket]
        THEN Fail(sv, q, "NoSuchKey", "Unhandled")
        ELSE IF upload_id \notin DOMAIN sv.storage[bucket][key].parts
        THEN Fail(sv, q, "NoSuchUpload", "Unhandled")
        ELSE IF multipart.some
        THEN LET parts == sv.storage[bucket][key].parts[upload_id]
                 queue == sort(selection_idx(parts,
                                             sort_by_key(multipart.parts)))
             IN  [sv EXCEPT !.storage[bucket][key] =
                                [@ EXCEPT !.body = extend(parts, 1, queue),
                                          !.completed = TRUE,
                                          !.parts = Remove(@, upload_id)],
                            !.ended = @ \cup {<<bucket, key, upload_id>>},
                            !.reply = q]
        ELSE [sv EXCEPT !.storage[bucket][key].parts = Remove(@, upload_id),
                        !.ended = @ \cup {<<bucket, key, upload_id>>},
                        !.reply = q]

abort_multipart_upload(sv, bucket, key, upload_id) ==
    LET q == Request("abort_multipart_upload", bucket, key, upload_id)
    IN  IF bucket \notin DOMAIN sv.storage
        THEN Fail(sv, q, "NoSuchBucket", "Unhandled")
        ELSE IF key \notin DOMAIN sv.storage[bucket]
        THEN Fail(sv, q, "NoSuchKey", "Unhandled")
        ELSE IF upload_id \notin DOMAIN sv.storage[bucket][key].parts
        THEN Fail(sv, q, "NoSuchUpload", "Unhandled")
        ELSE [sv EXCEPT !.storage[bucket][key].parts = Remove(@, upload_id),
                        !.ended = @ \cup {<<bucket, key, upload_id>>},
                        !.reply = q]

\* Bytes::slice(begin..end): panics when begin > end or end > len
slice(body, begin, end) ==
    IF begin > end \/ end > Len(body)
    THEN [res |-> "Panic", body |-> <<>>]
    ELSE [res |-> "Ok", body |-> SubSeq(body, begin + 1, end)]

\* the body that a parsed range selects.  (None, Some(len)) computes
\* body.len() - len in usize: with len > body.len() a debug build panics at
\* the subtraction, a release build wraps and panics in slice
range_body(body, begin, end) ==
    IF begin >= 0 /\ end >= 0 THEN slice(body, begin, end + 1)
    ELSE IF begin >= 0 THEN slice(body, begin, Len(body))
    ELSE IF end >= 0
    THEN IF end > Len(body) THEN [res |-> "Panic", body |-> <<>>]
                            ELSE slice(body, Len(body) - end, Len(body))
    ELSE slice(body, 0, Len(body))

get_object(sv, bucket, key, range, part_number) ==
    LET q == [Request("get_object", bucket, key, "")
                 EXCEPT !.range = range, !.part_number = part_number]
    IN  IF bucket \notin DOMAIN sv.storage
        THEN Fail(sv, q, "NoSuchBucket", "Unhandled")
        ELSE IF key \notin DOMAIN sv.storage[bucket]
        THEN Fail(sv, q, "NoSuchKey", "NoSuchKey")
        ELSE IF ~sv.storage[bucket][key].completed
        THEN Fail(sv, q, "NoSuchKey", "NoSuchKey")
        ELSE LET body == sv.storage[bucket][key].body
             IN  IF range.form = "unit"
                 THEN Fail(sv, q, "UnsupportedRangeUnit", "Unhandled")
                 ELSE IF range.form \in {"noset", "nodash", "badnum"}
                 THEN Fail(sv, q, "InvalidRange", "Unhandled")
                 ELSE IF range.form = "span"
                 THEN LET r == range_body(body, range.begin, range.end)
                      IN  IF r.res = "Panic" THEN PanicIn(sv, q)
                          ELSE [sv EXCEPT !.reply = [q EXCEPT !.body = r.body]]
                 ELSE IF part_number.some
                 THEN IF part_number.n < 0 \/ part_number.n >= Len(body)
                      THEN Fail(sv, q, "InvalidPartNumber", "Unhandled")
                      ELSE PanicIn(sv, q)
                 ELSE [sv EXCEPT !.reply = [q EXCEPT !.body = body]]

put_object(sv, bucket, key, body) ==
    LET q == [Request("put_object", bucket, key, "") EXCEPT !.sent = body]
    IN  IF bucket \notin DOMAIN sv.storage
        THEN Fail(sv, q, "NoSuchBucket", "Unhandled")
        ELSE LET o == IF key \in DOMAIN sv.storage[bucket]
                      THEN sv.storage[bucket][key] ELSE Object_default
             IN  [sv EXCEPT !.storage[bucket] =
                                Put(@, key, [o EXCEPT !.body = body,
                                                      !.completed = TRUE]),
                            !.reply = q]

\* a delete that removes the object together with its pending uploads
delete_key_remove(objects, key) ==
    IF key \in DOMAIN objects /\ objects[key].completed
    THEN Remove(objects, key)
    ELSE objects

\* what delete_object and delete_objects do to one key of a bucket's map: a
\* completed object is removed when it has no upload pending, else it is
\* marked not completed and its body is cleared
delete_key(objects, key) ==
    IF key \in DOMAIN objects /\ objects[key].completed
    THEN IF DOMAIN objects[key].parts = {}
         THEN Remove(objects, key)
         ELSE [objects EXCEPT ![key].completed = FALSE, ![key].body = <<>>]
    ELSE objects

delete_object(sv, bucket, key) ==
    LET q == Request("delete_object", bucket, key, "")
    IN  IF bucket \notin DOMAIN sv.storage
        THEN Fail(sv, q, "NoSuchBucket", "Unhandled")
        ELSE [sv EXCEPT !.storage[bucket] = delete_key(@, key), !.reply = q]

\* the keys of delete.objects, in order: the items without a key fall out
RECURSIVE flat_map(_)
flat_map(items) ==
    IF items = <<>> THEN <<>>
    ELSE (IF Head(items).some THEN <<Head(items).key>> ELSE <<>>)
             \o flat_map(Tail(items))

\* a loop over the keys that ends after the first key
delete_keys_first(objects, keys) ==
    IF keys = <<>> THEN objects ELSE delete_key(objects, Head(keys))

RECURSIVE delete_keys(_, _)
delete_keys(objects, keys) ==
    IF keys = <<>> THEN objects
    ELSE delete_keys(delete_key(objects, Head(keys)), Tail(keys))

\* delete_objects.  delete.objects is [some, items]
delete_objects(sv, bucket, delete) ==
    LET q == [Request("delete_objects", bucket, <<>>, "")
                 EXCEPT !.delete = delete]
    IN  IF bucket \notin DOMAIN sv.storage
        THEN Fail(sv, q, "NoSuchBucket", "Unhandled")
        ELSE IF ~delete.some
        THEN [sv EXCEPT !.reply = q]
        ELSE LET keys == flat_map(delete.items)
             IN  [sv EXCEPT !.storage[bucket] = delete_keys(@, keys),
                            !.reply = [q EXCEPT !.keys = keys]]

\* a head_object that does not look at completed
head_object_any(sv, bucket, key) ==
    LET q == Request("head_object", bucket, key, "")
    IN  IF bucket \notin DOMAIN sv.storage
        THEN Fail(sv, q, "NoSuchBucket", "Unhandled")
        ELSE IF key \notin DOMAIN sv.storage[bucket]
        THEN Fail(sv, q, "NotFound", "NotFound")
        ELSE [sv EXCEPT !.reply =
                 [q EXCEPT !.content_length =
                               sv.storage[bucket][key].content_length]]

head_object(sv, bucket, key) ==
    LET q == Request("head_object", bucket, key, "")
    IN  IF bucket \notin DOMAIN sv.storage
        THEN Fail(sv, q, "NoSuchBucket", "Unhandled")
        ELSE IF key \notin DOMAIN sv.storage[bucket]
        THEN Fail(sv, q, "NotFound", "NotFound")
        ELSE IF ~sv.storage[bucket][key].completed
        THEN Fail(sv, q, "NotFound", "NotFound")
        ELSE [sv EXCEPT !.reply =
                 [q EXCEPT !.content_length =
                               sv.storage[bucket][key].content_length]]

\* the place of a character in the byte order
Rank(c) == CHOOSE i \in 1..Len(Alphabet) : Alphabet[i] = c

\* the order of String keys in a BTreeMap
KeyLess(x, y) ==
    \E i \in 1..Len(y) :
        /\ \A j \in 1..(i - 1) : j <= Len(x) /\ x[j] = y[j]
        /\ (i > Len(x) \/ Rank(x[i]) < Rank(y[i]))

\* bucket.iter(): the keys in the map's order
RECURSIVE iter(_)
iter(S) ==
    IF S = {} THEN <<>>
    ELSE LET m == CHOOSE x \in S : \A y \in S \ {x} : KeyLess(x, y)
         IN  <<m>> \o iter(S \ {m})

\* str::starts_with
starts_with(key, prefix) ==
    Len(prefix) <= Len(key) /\ SubSeq(key, 1, Len(prefix)) = prefix

\* list_objects_v2.  prefix is [some, str]; the reply lists the keys, each
\* with size = content_length
list_objects_v2(sv, bucket, prefix) ==
    LET q == [Request("list_objects_v2", bucket, <<>>, "")
                 EXCEPT !.prefix = prefix]
    IN  IF bucket \notin DOMAIN sv.storage
        THEN Fail(sv, q, "NoSuchBucket", "NoSuchBucket")
        ELSE LET objects == sv.storage[bucket]
                 listed == IF prefix.some
                           THEN {k \in DOMAIN objects :
                                    starts_with(k, prefix.str)
                                        /\ objects[k].completed}
                           ELSE DOMAIN objects
                 keys == iter(listed)
             IN  [sv EXCEPT !.reply =
                     [q EXCEPT !.keys = keys,
                               !.sizes = [i \in 1..Len(keys) |->
                                   objects[keys[i]].content_length]]]

\* ------------------------------------------- two runs of the S3 service
\* s3 and twin are the services of two runs of one simulation: the same
\* seed and the same requests in the same order, and each run with its own
\* entropy.  A request is one step, but for create_multipart_upload, whose
\* loop is one step per turn; the Mutex around ServiceInner is held by the
\* request that runs, so that no request starts while a loop turns.

\* the parts that the model lets the uploads of a service hold in all
MaxParts == 2

\* the number of parts in the pending uploads of a service
RECURSIVE Sum(_, _)
Sum(f, S) ==
    IF S = {} THEN 0
    ELSE LET x == CHOOSE y \in S : TRUE IN f[x] + Sum(f, S \ {x})

PartsIn(o) == Sum([id \in DOMAIN o.parts |-> Len(o.parts[id])], DOMAIN o.parts)

PartsOf(sv) ==
    Sum([b \in DOMAIN sv.storage |->
            Sum([k \in DOMAIN sv.storage[b] |-> PartsIn(sv.storage[b][k])],
                DOMAIN sv.storage[b])],
        DOMAIN sv.storage)

\* the request bodies, completed-part lists, deletes and prefixes of the runs
Bodies == {<<1>>, <<2>>}
NoTag == [some |-> FALSE, tag |-> ""]
Multiparts == {[some |-> FALSE, parts |-> <<>>],
               [some |-> TRUE, parts |-> <<>>],
               [some |-> TRUE,
                parts |-> <<[part_number |-> 1, e_tag |-> NoTag]>>]}
Deletes == {[some |-> FALSE, items |-> <<>>]}
               \cup {[some |-> TRUE, items |-> <<[some |-> TRUE, key |-> k]>>] :
                        k \in Keys}
Prefixes == {[some |-> FALSE, str |-> <<>>], [some |-> TRUE, str |-> <<"a">>]}

\* both runs start from S3Service::new() and from the same seed
InitS3 ==
    /\ fs = [n \in Nodes |-> [p \in Paths |-> 0]]
    /\ inodes = [i \in InodeIds |-> NoINode]
    /\ files = [h \in FileIds |-> NoFile]
    /\ last = NoCall
    /\ created = {}
    /\ handles = Nodes
    /\ rw = [i \in 1..MaxInodes |-> Unlocked]
    /\ tasks = [t \in Tasks |-> NoTask]
    /\ \E seed \in 0..(Len(Stream) - 1) :
           /\ s3 = NewService(seed)
           /\ twin = NewService(seed)
    /\ etcd = builder
    /\ rpc = [r \in Runs |-> NoRun]

CreateBucket(name) ==
    /\ Ready(s3)
    /\ s3' = create_bucket(s3, name)
    /\ twin' = create_bucket(twin, name)
    /\ UNCHANGED fsvars

CreateMultipartUpload(bucket, key) ==
    /\ Ready(s3)
    /\ s3' = create_multipart_upload(s3, bucket, key)
    /\ twin' = create_multipart_upload(twin, bucket, key)
    /\ UNCHANGED fsvars

\* the loop of create_multipart_upload takes a turn in each run it is in
Loop ==
    /\ s3.reply = NoReply
    /\ s3.loop.on
    /\ \E e1 \in Entropy, e2 \in Entropy :
           /\ s3' = loop_turn(s3, e1)
           /\ twin' = IF twin.loop.on THEN loop_turn(twin, e2) ELSE twin
    /\ UNCHANGED fsvars

UploadPart(bucket, key, body, part_number, upload_id) ==
    /\ Ready(s3)
    /\ PartsOf(s3) < MaxParts
    /\ \E e1 \in Entropy, e2 \in Entropy :
           /\ s3' = upload_part(s3, bucket, key, body, part_number, upload_id, e1)
           /\ twin' = upload_part(twin, bucket, key, body, part_number,
                                  upload_id, e2)
    /\ UNCHANGED fsvars

CompletedMultipartUpload(bucket, key, multipart, upload_id) ==
    /\ Ready(s3)
    /\ s3' = complete_multipart_upload(s3, bucket, key, multipart, upload_id)
    /\ twin' = complete_multipart_upload(twin, bucket, key, multipart, upload_id)
    /\ UNCHANGED fsvars

AbortMultipartUpload(bucket, key, upload_id) ==
    /\ Ready(s3)
    /\ s3' = abort_multipart_upload(s3, bucket, key, upload_id)
    /\ twin' = abort_multipart_upload(twin, bucket, key, upload_id)
    /\ UNCHANGED fsvars

GetObject(bucket, key, range, part_number) ==
    /\ Ready(s3)
    /\ s3' = get_object(s3, bucket, key, range, part_number)
    /\ twin' = get_object(twin, bucket, key, range, part_number)
    /\ UNCHANGED fsvars

PutObject(bucket, key, body) ==
    /\ Ready(s3)
    /\ s3' = put_object(s3, bucket, key, body)
    /\ twin' = put_object(twin, bucket, key, body)
    /\ UNCHANGED fsvars

DeleteObject(bucket, key) ==
    /\ Ready(s3)
    /\ s3' = delete_object(s3, bucket, key)
    /\ twin' = delete_object(twin, bucket, key)
    /\ UNCHANGED fsvars

DeleteObjects(bucket, delete) ==
    /\ Ready(s3)
    /\ s3' = delete_objects(s3, bucket, delete)
    /\ twin' = delete_objects(twin, bucket, delete)
    /\ UNCHANGED fsvars

HeadObject(bucket, key) ==
    /\ Ready(s3)
    /\ s3' = head_object(s3, bucket, key)
    /\ twin' = head_object(twin, bucket, key)
    /\ UNCHANGED fsvars

ListObjectsV2(bucket, prefix) ==
    /\ Ready(s3)
    /\ s3' = list_objects_v2(s3, bucket, prefix)
    /\ twin' = list_objects_v2(twin, bucket, prefix)
    /\ UNCHANGED fsvars

\* the callers take their replies; after a panic nothing runs
Respond ==
    /\ s3.reply # NoReply
    /\ s3.reply.res # "Panic"
    /\ s3' = [s3 EXCEPT !.reply = NoReply]
    /\ twin' = [twin EXCEPT !.reply = NoReply]
    /\ UNCHANGED fsvars

NextS3 ==
    \/ \E name \in Buckets : CreateBucket(name)
    \/ \E b \in Buckets, k \in UploadKeys : CreateMultipartUpload(b, k)
    \/ Loop
    \/ \E b \in Buckets, k \in UploadKeys, body \in Bodies, id \in UploadIds :
           UploadPart(b, k, body, 1, id)
    \/ \E b \in Buckets, k \in UploadKeys, m \in Multiparts, id \in UploadIds :
           CompletedMultipartUpload(b, k, m, id)
    \/ \E b \in Buckets, k \in UploadKeys, id \in UploadIds :
           AbortMultipartUpload(b, k, id)
    \/ \E b \in Buckets, k \in Keys : GetObject(b, k, NoRange, NoPart)
    \/ \E b \in Buckets, k \in Keys, body \in Bodies : PutObject(b, k, body)
    \/ \E b \in Buckets, k \in Keys : DeleteObject(b, k)
    \/ \E b \in Buckets, d \in Deletes : DeleteObjects(b, d)
    \/ \E b \in Buckets, k \in Keys : HeadObject(b, k)
    \/ \E b \in Buckets, p \in Prefixes : ListObjectsV2(b, p)
    \/ Respond

SpecS3 == InitS3 /\ [][NextS3]_vars

\* the loop goes on turning for as long as it is entered: the task that
\* called create_multipart_upload keeps running
SpecS3Live == SpecS3 /\ WF_vars(Loop)

\* --------------------------------------------- one upload, many parts
\* the part numbers of the uploaded and of the completed parts
PartNumbers == {1, 2}

\* CompletedPart values
Part(n) == [part_number |-> n, e_tag |-> NoTag]
TaggedPart(n, t) == [part_number |-> n, e_tag |-> [some |-> TRUE, tag |-> t]]

\* the part lists of the complete_multipart_upload requests
PartLists ==
    {NoMultipart}
        \cup {[some |-> TRUE, parts |-> l] :
                 l \in {<<>>, <<Part(1)>>, <<Part(2)>>, <<Part(1), Part(2)>>,
                        <<Part(2), Part(1)>>, <<TaggedPart(1, "0")>>,
                        <<TaggedPart(1, "1")>>}}

\* no object of the service has an upload pending
NoneUploading(sv) ==
    \A b \in DOMAIN sv.storage : \A k \in DOMAIN sv.storage[b] :
        DOMAIN sv.storage[b][k].parts = {}

\* one task uploads an object in parts, one upload at a time, and reads it
NextParts ==
    \/ \E name \in Buckets : CreateBucket(name)
    \/ \E b \in Buckets, k \in UploadKeys :
           NoneUploading(s3) /\ CreateMultipartUpload(b, k)
    \/ Loop
    \/ \E b \in Buckets, k \in UploadKeys, body \in Bodies,
          n \in PartNumbers, id \in UploadIds : UploadPart(b, k, body, n, id)
    \/ \E b \in Buckets, k \in UploadKeys, m \in PartLists, id \in UploadIds :
           CompletedMultipartUpload(b, k, m, id)
    \/ \E b \in Buckets, k \in UploadKeys,
          part \in {NoPart, [some |-> TRUE, n |-> 0]} :
           GetObject(b, k, NoRange, part)
    \/ Respond

SpecParts == InitS3 /\ [][NextParts]_vars

\* ------------------------------------------------------ byte ranges
MaxBody == 2       \* longest body put for a ranged get_object

\* the bodies put, up to MaxBody bytes
RangeBodies == {[i \in 1..n |-> i] : n \in 0..MaxBody}

\* Range headers: bytes=b-e, bytes=b-, bytes=-e and bytes=- with positions
\* inside, at and past the end of the bodies; and one of each malformed kind
Ranges ==
    {[form |-> "span", begin |-> b, end |-> e] :
        b \in -1..MaxBody, e \in -1..MaxBody}
        \cup {[form |-> f, begin |-> -1, end |-> -1] :
                 f \in {"unit", "noset", "nodash", "badnum"}}

\* objects are put and read by byte range
NextRanges ==
    \/ \E name \in Buckets : CreateBucket(name)
    \/ \E b \in Buckets, k \in Keys, body \in RangeBodies : PutObject(b, k, body)
    \/ \E b \in Buckets, k \in Keys, range \in Ranges :
           GetObject(b, k, range, NoPart)
    \/ Respond

SpecRanges == InitS3 /\ [][NextRanges]_vars

\* ----------------------------------------------- deleting many keys
MaxItems == 2      \* ObjectIdentifiers in one Delete

\* ObjectIdentifiers: the keys of the objects, a key that no object has,
\* and an identifier without key
Identifiers ==
    {[some |-> TRUE, key |-> k] : k \in Keys \cup {<<"b">>}}
        \cup {[some |-> FALSE, key |-> <<>>]}

\* Delete values: objects None, and the lists of up to MaxItems identifiers
DeleteLists ==
    {NoDelete}
        \cup {[some |-> TRUE, items |-> l] :
                 l \in UNION {[1..n -> Identifiers] : n \in 0..MaxItems}}

\* objects are put, uploads are started and keys are deleted, one by one
\* and many at once
NextDeletes ==
    \/ \E name \in Buckets : CreateBucket(name)
    \/ \E b \in Buckets, k \in Keys : PutObject(b, k, <<1>>)
    \/ \E b \in Buckets, k \in UploadKeys :
           NoneUploading(s3) /\ CreateMultipartUpload(b, k)
    \/ Loop
    \/ \E b \in Buckets, k \in Keys : DeleteObject(b, k)
    \/ \E b \in Buckets, d \in DeleteLists : DeleteObjects(b, d)
    \/ Respond

SpecDeletes == InitS3 /\ [][NextDeletes]_vars

\* ------------------------------------------------- bucket lifecycles
\* the bucket names of the lifecycle requests: the bucket that create_bucket
\* makes, and one that is never made
LifecycleBuckets == Buckets \cup {"never"}

\* LifecycleRule values
Rules == {"expire", "archive"}

\* the lifecycle_configuration argument: None, or Some with rules None or
\* Some list
Configurations ==
    {[some |-> FALSE, rules |-> [some |-> FALSE, list |-> <<>>]],
     [some |-> TRUE, rules |-> [some |-> FALSE, list |-> <<>>]]}
        \cup {[some |-> TRUE, rules |-> [some |-> TRUE, list |-> l]] :
                 l \in {<<>>} \cup {<<r>> : r \in Rules}}

\* get_bucket_lifecycle_configuration: the rules of the bucket's entry; a
\* vacant entry is filled with an empty list first
get_bucket_lifecycle_configuration(sv, bucket) ==
    LET q == Request("get_bucket_lifecycle_configuration", bucket, <<>>, "")
    IN  IF bucket \in DOMAIN sv.lifecycle
        THEN [sv EXCEPT !.reply = [q EXCEPT !.rules = sv.lifecycle[bucket]]]
        ELSE [sv EXCEPT !.lifecycle = Put(@, bucket, <<>>), !.reply = q]

\* put_bucket_lifecycle_configuration: S3Service's method puts Some(empty
\* rules) for a configuration of None, ServiceInner's inserts
\* rules.unwrap_or_default() for the bucket
put_bucket_lifecycle_configuration(sv, bucket, lifecycle_configuration) ==
    LET q == Request("put_bucket_lifecycle_configuration", bucket, <<>>, "")
        configuration == IF lifecycle_configuration.some
                         THEN lifecycle_configuration.rules
                         ELSE [some |-> TRUE, list |-> <<>>]
        rules == IF configuration.some THEN configuration.list ELSE <<>>
    IN  [sv EXCEPT !.lifecycle = Put(@, bucket, rules), !.reply = q]

GetBucketLifecycleConfiguration(bucket) ==
    /\ Ready(s3)
    /\ s3' = get_bucket_lifecycle_configuration(s3, bucket)
    /\ twin' = get_bucket_lifecycle_configuration(twin, bucket)
    /\ UNCHANGED fsvars

PutBucketLifecycleConfiguration(bucket, lifecycle_configuration) ==
    /\ Ready(s3)
    /\ s3' = put_bucket_lifecycle_configuration(s3, bucket,
                                                lifecycle_configuration)
    /\ twin' = put_bucket_lifecycle_configuration(twin, bucket,
                                                  lifecycle_configuration)
    /\ UNCHANGED fsvars

NextLifecycle ==
    \/ \E name \in Buckets : CreateBucket(name)
    \/ \E b \in LifecycleBuckets : GetBucketLifecycleConfiguration(b)
    \/ \E b \in LifecycleBuckets, c \in Configurations :
           PutBucketLifecycleConfiguration(b, c)
    \/ \E b \in LifecycleBuckets, k \in Keys, body \in Bodies :
           PutObject(b, k, body)
    \/ Respond

SpecLifecycle == InitS3 /\ [][NextLifecycle]_vars

\* ----------------------------------------------- the etcd SimServer
MaxRequests == 2   \* requests a client sends on one connection
MaxEvents == 1     \* events the service publishes
MaxStream == 3     \* events the service publishes to one observe stream

\* the rates given to timeout_rate, in tenths: below, at the ends of and
\* above 0.0..=1.0, and no number
Rates == {F32(-1), F32(0), F32(10), F32(11), NaN}
Dumps == {"dump"}

\* the requests a client sends: Request::Put for the variants whose arm is
\* one service call, and Request::Observe
Kinds == {"Put", "Observe"}

\* EventType
EventTypes == {"Put", "Delete"}

\* the state outside the SimServer
nonetcd == <<fs, inodes, files, last, created, handles, rw, tasks, s3, twin,
             rpc>>

\* (0.0..=1.0).contains(&rate): 0.0 <= rate && rate <= 1.0, false of NaN
contains(rate) == ~rate.nan /\ 0 <= rate.tenths /\ rate.tenths <= 10

\* SimServer::timeout_rate without its assert
timeout_rate_unchecked(sv, rate) == [sv EXCEPT !.server.timeout_rate = rate]

\* SimServer::timeout_rate
timeout_rate(sv, rate) ==
    IF contains(rate) THEN [sv EXCEPT !.server.timeout_rate = rate]
    ELSE [sv EXCEPT !.state = "Panic"]

\* SimServer::load
load(sv, data) == [sv EXCEPT !.server.load = [some |-> TRUE, data |-> data]]

\* SimServer::serve up to its loop: Endpoint::bind(addr).await? fails or
\* binds, and EtcdService::new takes the builder's rate and dump
serve(sv, bound) ==
    IF bound THEN [sv EXCEPT !.state = "serving", !.service = sv.server]
    ELSE [sv EXCEPT !.state = "Err"]

\* rx.recv().await of the handler, with a request waiting: the while loop
\* takes it
recv_request(cn) ==
    [cn EXCEPT !.request = Head(cn.inbox), !.inbox = Tail(cn.inbox),
               !.received = Append(cn.received, Head(cn.inbox)),
               !.pc = "match"]

\* rx.recv().await of the handler on a closed connection: the while loop
\* ends and the task returns Ok(())
recv_closed(cn) == [cn EXCEPT !.pc = "done", !.result = "Ok"]

\* the match on the request: an arm with one service call gives the
\* response; service.observe gives an error, which is the response, or a
\* stream
match(cn, observed) ==
    IF cn.request.kind = "Observe" /\ observed
    THEN [cn EXCEPT !.pc = "stream", !.stream = <<>>]
    ELSE [cn EXCEPT !.pc = "send",
                    !.response = [NoResponse EXCEPT !.to = cn.request.id]]

\* tx.send(response).await? that forgets the response
send_lost(cn) ==
    IF cn.client = "closed" THEN [cn EXCEPT !.pc = "done", !.result = "Err"]
    ELSE [cn EXCEPT !.pc = "recv"]

\* tx.send(response).await?: the error of a closed connection ends the
\* task, otherwise the loop goes back to rx.recv()
send(cn) ==
    IF cn.client = "closed" THEN [cn EXCEPT !.pc = "done", !.result = "Err"]
    ELSE [cn EXCEPT !.outbox = Append(cn.outbox, cn.response), !.pc = "recv"]

\* a stream.recv().await that makes a LeaderResponse of every event
stream_recv_all(cn) ==
    [cn EXCEPT !.stream = Tail(cn.stream), !.pc = "stream_send",
               !.response = [to |-> cn.request.id, event |-> TRUE,
                             kv |-> Head(cn.stream).kv]]

\* stream.recv().await with an event waiting: an event that is no Put is
\* skipped, a Put becomes a LeaderResponse
stream_recv(cn) ==
    IF Head(cn.stream).event_type # "Put"
    THEN [cn EXCEPT !.stream = Tail(cn.stream)]
    ELSE [cn EXCEPT !.stream = Tail(cn.stream), !.pc = "stream_send",
                    !.response = [to |-> cn.request.id, event |-> TRUE,
                                  kv |-> Head(cn.stream).kv]]

\* tx.send(Box::new(response)).await inside the observe loop: an error
\* returns Ok(()), otherwise the loop goes back to stream.recv()
stream_send(cn) ==
    IF cn.client = "closed" THEN [cn EXCEPT !.pc = "done", !.result = "Ok"]
    ELSE [cn EXCEPT !.outbox = Append(cn.outbox, cn.response),
                    !.pc = "stream"]

\* the service sends an event to every stream that observe has handed
\* out; kv tells the events apart
publish(sv, type) ==
    LET event == [event_type |-> type, kv |-> sv.published + 1]
    IN  [sv EXCEPT !.published = @ + 1,
                   !.conn = [c \in Conns |->
                       IF sv.conn[c].pc \in {"stream", "stream_send"}
                       THEN [sv.conn[c] EXCEPT !.stream = Append(@, event),
                                               !.events = Append(@, event)]
                       ELSE sv.conn[c]]]

TimeoutRate(rate) ==
    /\ etcd.state = "builder"
    /\ etcd' = timeout_rate(etcd, rate)
    /\ UNCHANGED nonetcd

Load(data) ==
    /\ etcd.state = "builder"
    /\ etcd' = load(etcd, data)
    /\ UNCHANGED nonetcd

Serve(bound) ==
    /\ etcd.state = "builder"
    /\ etcd' = serve(etcd, bound)
    /\ UNCHANGED nonetcd

\* a client connects to the address the server is bound to
Connect(c) ==
    /\ etcd.state = "serving"
    /\ etcd.conn[c].client = "idle"
    /\ etcd' = [etcd EXCEPT !.conn[c].client = "open"]
    /\ UNCHANGED nonetcd

\* a client sends a request: it waits in the connection, behind the
\* requests sent before it
ClientSend(c, kind) ==
    /\ etcd.conn[c].client = "open"
    /\ etcd.conn[c].sent < MaxRequests
    /\ etcd' = [etcd EXCEPT
                   !.conn[c].sent = @ + 1,
                   !.conn[c].inbox =
                       Append(@, [id |-> etcd.conn[c].sent + 1, kind |-> kind])]
    /\ UNCHANGED nonetcd

\* a client closes its side of the connection
ClientClose(c) ==
    /\ etcd.conn[c].client = "open"
    /\ etcd' = [etcd EXCEPT !.conn[c].client = "closed"]
    /\ UNCHANGED nonetcd

\* ep.accept1().await? and madsim::task::spawn of the handler
Accept1(c) ==
    /\ etcd.state = "serving"
    /\ etcd.conn[c].client # "idle"
    /\ etcd.conn[c].pc = "none"
    /\ etcd' = [etcd EXCEPT !.conn[c].pc = "recv"]
    /\ UNCHANGED nonetcd

\* rx.recv().await returns: with the next request, or, the client's side
\* being closed, with the error
Recv(c) ==
    /\ etcd.conn[c].pc = "recv"
    /\ \/ /\ etcd.conn[c].inbox # <<>>
          /\ etcd' = [etcd EXCEPT !.conn[c] = recv_request(@)]
       \/ /\ etcd.conn[c].client = "closed"
          /\ etcd' = [etcd EXCEPT !.conn[c] = recv_closed(@)]
    /\ UNCHANGED nonetcd

Match(c) ==
    /\ etcd.conn[c].pc = "match"
    /\ \E observed \in BOOLEAN :
           etcd' = [etcd EXCEPT !.conn[c] = match(@, observed)]
    /\ UNCHANGED nonetcd

Send(c) ==
    /\ etcd.conn[c].pc = "send"
    /\ etcd' = [etcd EXCEPT !.conn[c] = send(@)]
    /\ UNCHANGED nonetcd

StreamRecv(c) ==
    /\ etcd.conn[c].pc = "stream"
    /\ etcd.conn[c].stream # <<>>
    /\ etcd' = [etcd EXCEPT !.conn[c] = stream_recv(@)]
    /\ UNCHANGED nonetcd

StreamSend(c) ==
    /\ etcd.conn[c].pc = "stream_send"
    /\ etcd' = [etcd EXCEPT !.conn[c] = stream_send(@)]
    /\ UNCHANGED nonetcd

\* the service publishes an event; one that no stream takes leaves no trace
Publish(type) ==
    /\ etcd.state = "serving"
    /\ etcd.published < MaxEvents
    /\ \E c \in Conns : etcd.conn[c].pc \in {"stream", "stream_send"}
    /\ etcd' = publish(etcd, type)
    /\ UNCHANGED nonetcd

\* the service publishes an event to a stream, up to MaxStream events
PublishStream(type) ==
    /\ etcd.state = "serving"
    /\ etcd.published < MaxStream
    /\ \E c \in Conns : etcd.conn[c].pc \in {"stream", "stream_send"}
    /\ etcd' = publish(etcd, type)
    /\ UNCHANGED nonetcd

\* the steps of the handler task of a connection
Handler(c) ==
    Recv(c) \/ Match(c) \/ Send(c) \/ StreamRecv(c) \/ StreamSend(c)

\* SimServer::builder().serve(addr) and the clients of two connections
NextEtcd ==
    \/ \E bound \in BOOLEAN : Serve(bound)
    \/ \E c \in Conns : Connect(c)
    \/ \E c \in Conns, kind \in Kinds : ClientSend(c, kind)
    \/ \E c \in Conns : ClientClose(c)
    \/ \E c \in Conns : Accept1(c)
    \/ \E c \in Conns : Recv(c)
    \/ \E c \in Conns : Match(c)
    \/ \E c \in Conns : Send(c)
    \/ \E c \in Conns : StreamRecv(c)
    \/ \E c \in Conns : StreamSend(c)
    \/ \E type \in EventTypes : Publish(type)

SpecEtcd == Init /\ [][NextEtcd]_vars

\* a SimServer configured through its builder, and the client of one
\* connection
NextServer ==
    \/ \E rate \in Rates : TimeoutRate(rate)
    \/ \E data \in Dumps : Load(data)
    \/ \E bound \in BOOLEAN : Serve(bound)
    \/ Connect(1)
    \/ \E kind \in Kinds : ClientSend(1, kind)
    \/ ClientClose(1)
    \/ Accept1(1)
    \/ Recv(1)
    \/ Match(1)
    \/ Send(1)
    \/ StreamRecv(1)
    \/ StreamSend(1)
    \/ \E type \in EventTypes : Publish(type)

SpecServer == Init /\ [][NextServer]_vars

\* SimServer::builder().serve(addr), one connection and the events of its
\* observe stream
NextObserve ==
    \/ \E bound \in BOOLEAN : Serve(bound)
    \/ Connect(1)
    \/ \E kind \in Kinds : ClientSend(1, kind)
    \/ ClientClose(1)
    \/ Accept1(1)
    \/ Recv(1)
    \/ Match(1)
    \/ Send(1)
    \/ StreamRecv(1)
    \/ StreamSend(1)
    \/ \E type \in EventTypes : PublishStream(type)

SpecObserve == Init /\ [][NextObserve]_vars

\* the scheduler runs every task that can run: a handler that can take a
\* step takes it
SpecEtcdLive == SpecEtcd /\ \A c \in Conns : WF_vars(Handler(c))

\* ------------------------------- response metadata and session names
MaxWall == 3       \* latest real time of a run, in half seconds

\* the base names given to default_session_name
Bases == {"web-identity-token"}

\* the state outside the runs that are compared
nonrpc == <<fs, inodes, files, last, created, handles, rw, tasks, s3, twin,
            etcd>>

\* Duration::as_millis of a time since the epoch
as_millis(now) == now * 500

\* DateTime::to_rfc2822: the time to the second
to_rfc2822(now) ==
    "Thu, 01 Jan 1970 00:00:0" \o ToString(now \div 2) \o " +0000"

\* MetadataMap::append_metadata; now: what chrono::Utc::now() returns
append_metadata(metadata, now) ==
    metadata \o <<<<"content-type", "application/grpc">>,
                  <<"date", to_rfc2822(now)>>>>

\* Request<T>::append_metadata
append_metadata_request(metadata) ==
    Append(metadata, <<"content-type", "application/grpc">>)

\* default_session_name; now: what SystemTime::now() returns
default_session_name(base, now) == base \o "-" \o ToString(as_millis(now))

\* the two runs start at some real time each
InitRpc ==
    /\ fs = [n \in Nodes |-> [p \in Paths |-> 0]]
    /\ inodes = [i \in InodeIds |-> NoINode]
    /\ files = [h \in FileIds |-> NoFile]
    /\ last = NoCall
    /\ created = {}
    /\ handles = Nodes
    /\ rw = [i \in 1..MaxInodes |-> Unlocked]
    /\ tasks = [t \in Tasks |-> NoTask]
    /\ s3 = NewService(0)
    /\ twin = NewService(0)
    /\ etcd = builder
    /\ \E w \in [Runs -> 0..MaxWall] :
           rpc = [r \in Runs |-> [NoRun EXCEPT !.wall = w[r]]]

\* real time passes in one of the runs
RealTime(r) ==
    /\ rpc[r].wall < MaxWall
    /\ rpc' = [rpc EXCEPT ![r].wall = @ + 1]
    /\ UNCHANGED nonrpc

\* Result<Response<T>, Status>::append_metadata, in both runs: the metadata
\* of the response or of the status get the headers
AppendMetadata(res) ==
    /\ rpc' = [r \in Runs |->
                  [rpc[r] EXCEPT !.response =
                      [res |-> res,
                       metadata |-> append_metadata(<<>>, rpc[r].wall)]]]
    /\ UNCHANGED nonrpc

\* Request<T>::append_metadata, in both runs
AppendMetadataRequest ==
    /\ rpc' = [r \in Runs |->
                  [rpc[r] EXCEPT !.request = append_metadata_request(<<>>)]]
    /\ UNCHANGED nonrpc

\* default_session_name, in both runs
DefaultSessionName(base) ==
    /\ rpc' = [r \in Runs |->
                  [rpc[r] EXCEPT !.session =
                      default_session_name(base, rpc[r].wall)]]
    /\ UNCHANGED nonrpc

NextRpc ==
    \/ \E r \in Runs : RealTime(r)
    \/ \E res \in {"Ok", "Err"} : AppendMetadata(res)
    \/ AppendMetadataRequest
    \/ \E base \in Bases : DefaultSessionName(base)

SpecRpc == InitRpc /\ [][NextRpc]_vars

\* ------------------------------------------------------------ properties
\* the bytes of the INode that File h shares
Data(h) == inodes[files[h].inode].data

\* what a read_at through File h returns in the current state
Read(h, blen, offset) == ReadAt(Data(h), blen, offset)

\* C1: write_all_at(buf, 0) through a writable File returns Ok, and the
\* read_at that follows it with a buffer of len(buf) at offset 0 returns
\* len(buf) and the bytes of buf, whatever the file held before.
C1_RoundTrip ==
    (last.op = "write_all_at" /\ last.off = 0 /\ files[last.h].can_write)
        => (/\ last.res = "Ok"
            /\ Read(last.h, Len(last.buf), 0)
                   = [res |-> "Ok", n |-> Len(last.buf), out |-> last.buf])

\* a write at offset 0 over a file that held more bytes than buf has
C1_Witness ==
    /\ last.op = "write_all_at" /\ last.res = "Ok" /\ last.off = 0
    /\ last.buf # <<>> /\ last.oldlen > Len(last.buf)

\* C2: open of a path never created on the node returns NotFound and
\* changes nothing of the filesystem: no path appears, no INode, no File.
C2_Step ==
    (last'.op = "open" /\ <<last'.node, last'.path>> \notin created)
        => (/\ last'.res = "NotFound"
            /\ fs' = fs /\ inodes' = inodes /\ files' = files)

C2_OpenNotFound == [][C2_Step]_vars

C2_Witness ==
    /\ last.op = "open" /\ last.res = "NotFound"
    /\ fs[last.node][last.path] = 0

\* C3: write_all_at through a File that open returned is refused with
\* PermissionDenied and changes no file, whatever the buffer and the offset.
C3_Step ==
    (last'.op = "write_all_at" /\ files[last'.h].via = "open")
        => (/\ last'.res = "PermissionDenied"
            /\ inodes' = inodes /\ fs' = fs /\ files' = files)

C3_ReadOnly == [][C3_Step]_vars

\* a refused write while a writable File of the same path is alive
C3_Witness ==
    /\ last.op = "write_all_at" /\ last.res = "PermissionDenied"
    /\ last.buf # <<>>
    /\ \E g \in FileIds : /\ g # last.h /\ files[g].can_write
                          /\ files[g].inode = files[last.h].inode
                          /\ Data(g) # <<>>

\* C4: create returns Ok and a writable File of the path, also when the
\* path holds bytes, and the read_at at offset 0 that follows returns 0
\* bytes.
C4_TruncateOnCreate ==
    last.op = "create"
        => (/\ last.res = "Ok"
            /\ Live(last.h)
            /\ files[last.h].can_write
            /\ files[last.h].inode = fs[last.node][last.path]
            /\ \A blen \in 0..MaxBuf :
                   Read(last.h, blen, 0) = [res |-> "Ok", n |-> 0, out |-> <<>>])

\* a create on a path whose file held MaxLen bytes
C4_Witness ==
    /\ last.op = "create" /\ last.res = "Ok"
    /\ last.oldlen = MaxLen

\* C5: read_at with offset <= L returns Ok and n = min(len(buf), L - offset),
\* puts the file's bytes [offset, offset + n) in the buffer, and leaves the
\* file as it was.
C5_Step ==
    (last'.op = "read_at" /\ last'.off <= Len(Data(last'.h)))
        => LET L == Len(Data(last'.h))
               n == Min(last'.len, L - last'.off)
           IN  /\ last'.res = "Ok"
               /\ last'.n = n
               /\ Len(last'.out) = n
               /\ \A i \in 1..n : last'.out[i] = Data(last'.h)[last'.off + i]
               /\ inodes' = inodes /\ fs' = fs /\ files' = files

C5_ShortRead == [][C5_Step]_vars

\* a read that stops at the end of the data, short of the buffer
C5_Witness ==
    /\ last.op = "read_at" /\ last.res = "Ok"
    /\ last.off > 0 /\ last.n > 0 /\ last.n < last.len

\* C6: read_at with offset > L is a short read of 0 bytes: Ok and n = 0,
\* never an error, never a fatal failure.
C6_ReadPastEnd ==
    (last.op = "read_at" /\ last.off > Len(Data(last.h)))
        => (last.res = "Ok" /\ last.n = 0)

Max(a, b) == IF a > b THEN a ELSE b

\* C7: write_all_at(buf, offset) through a writable File with offset <= L
\* returns Ok and leaves old[0..offset] ++ buf ++ old[offset+len(buf)..L]:
\* the length is max(L, offset + len(buf)), the bytes outside the written
\* range are the old ones, and no other INode changes.
C7_Step ==
    (/\ last'.op = "write_all_at" /\ files[last'.h].can_write
     /\ last'.off <= Len(Data(last'.h)))
        => LET i0  == files[last'.h].inode
               old == Data(last'.h)
               L   == Len(old)
               off == last'.off
               buf == last'.buf
               new == inodes'[i0].data
           IN  /\ last'.res = "Ok"
               /\ new = SubSeq(old, 1, off) \o buf
                            \o SubSeq(old, off + Len(buf) + 1, L)
               /\ Len(new) = Max(L, off + Len(buf))
               /\ \A i \in 1..Len(new) :
                      (i <= off \/ i > off + Len(buf)) => new[i] = old[i]
               /\ \A j \in InodeIds : j # i0 => inodes'[j] = inodes[j]

C7_WriteWithin == [][C7_Step]_vars

\* a write inside the file, with old bytes before it and after it
C7_Witness ==
    /\ last.op = "write_all_at" /\ last.res = "Ok"
    /\ last.off > 0 /\ last.buf # <<>>
    /\ last.off + Len(last.buf) < last.oldlen

\* C8: write_all_at through a writable File with offset > L returns Ok and
\* appends the written bytes to the file, with no zero bytes for the gap.
C8_Step ==
    (/\ last'.op = "write_all_at" /\ files[last'.h].can_write
     /\ last'.off > Len(Data(last'.h)))
        => (/\ last'.res = "Ok"
            /\ inodes'[files[last'.h].inode].data = Data(last'.h) \o last'.buf)

C8_WritePastEnd == [][C8_Step]_vars

\* Files g and h were returned for the same path of the same node
SameOrigin(g, h) ==
    files[g].node = files[h].node /\ files[g].path = files[h].path

\* C9: the Files of one path of one node share one buffer: after a
\* write_all_at or set_len through one of them, a read_at through any
\* other returns the bytes the writing File reads.
C9_Aliasing ==
    (last.op \in {"write_all_at", "set_len"} /\ last.res = "Ok")
        => \A g \in FileIds :
               (Live(g) /\ SameOrigin(g, last.h))
                   => \A blen \in 0..MaxBuf, off \in 0..MaxLen :
                          Read(g, blen, off) = Read(last.h, blen, off)

\* a write that changes the file while a File that open returned for the
\* same path is alive
C9_Witness ==
    /\ last.op = "write_all_at" /\ last.res = "Ok" /\ last.buf # <<>>
    /\ \E g \in FileIds : /\ g # last.h /\ Live(g) /\ files[g].via = "open"
                          /\ SameOrigin(g, last.h)
                          /\ Read(g, MaxBuf, last.off).out # <<>>

\* C10: a path keeps its INode for ever; create on an existing path empties
\* that INode and returns a File of it, the Files obtained before still
\* refer to it and read 0 bytes, and every File refers to the INode of its
\* path, so that old and new Files see each other's later writes.
C10_Step ==
    /\ \A n \in Nodes, p \in Paths : fs[n][p] # 0 => fs'[n][p] = fs[n][p]
    /\ (last'.op = "create" /\ fs[last'.node][last'.path] # 0)
           => LET i0 == fs[last'.node][last'.path]
              IN  /\ files'[last'.h].inode = i0
                  /\ inodes'[i0].data = <<>>
                  /\ \A g \in FileIds :
                         (/\ Live(g) /\ files[g].node = last'.node
                          /\ files[g].path = last'.path)
                             => (/\ files'[g] = files[g]
                                 /\ files[g].inode = i0
                                 /\ ReadAt(inodes'[files'[g].inode].data,
                                           MaxBuf, 0).n = 0)
    /\ \A g \in FileIds :
           files'[g].inode # 0
               => files'[g].inode = fs'[files'[g].node][files'[g].path]

C10_CreateKeepsINode == [][C10_Step]_vars

\* a create that empties a file another File refers to
C10_Witness ==
    /\ last.op = "create" /\ last.oldlen > 0
    /\ \E g \in FileIds : /\ g # last.h /\ Live(g)
                          /\ files[g].inode = files[last.h].inode

\* C13: set_len(size) returns Ok and leaves the file exactly size bytes long:
\* the first size bytes are kept when the file was longer, and when it was
\* shorter all its bytes are kept and zero bytes fill the rest.
C13_Step ==
    (last = NoCall /\ last'.op = "set_len") =>
        LET h == last'.h
            old == Data(h)
            new == inodes'[files[h].inode].data
        IN  /\ last'.res = "Ok"
            /\ Len(new) = last'.len
            /\ \A i \in 1..last'.len :
                   new[i] = IF i <= Len(old) THEN old[i] ELSE 0

C13_SetLen == [][C13_Step]_vars

\* a set_len that grew a file holding a nonzero byte
C13_Witness ==
    /\ last.op = "set_len"
    /\ last.oldlen > 0
    /\ last.len > last.oldlen
    /\ Data(last.h)[1] = 1

\* C14: a path that create was called for stays in the node's map, and an
\* open of it returns Ok, whatever was called in between.
C14_CreatedStays ==
    /\ \A c \in created : fs[c[1]][c[2]] # 0
    /\ (last.op = "open" /\ <<last.node, last.path>> \in created) =>
           (last.res = "Ok" /\ Live(last.h))

\* an open that returned Ok after every earlier File of the path was dropped
C14_Witness ==
    /\ last.op = "open"
    /\ last.res = "Ok"
    /\ \A g \in FileIds \ {last.h} : ~Live(g)

\* C15: power_fail(addr) returns to its caller, so that the simulation goes
\* on with the data that reached the disk (the part of the claim about
\* which bytes survive needs the call to return first).
C15_PowerFail ==
    (last.op = "power_fail") => (last.res = "Ok")

\* C16: sync_all returns Ok through a writable and through a read-only
\* File, and leaves every file's bytes, the path maps and the Files as
\* they were.
C16_Step ==
    (last = NoCall /\ last'.op = "sync_all") =>
        /\ last'.res = "Ok"
        /\ UNCHANGED <<fs, inodes, files>>

C16_SyncAll == [][C16_Step]_vars

\* a sync_all through a read-only File of a file that holds bytes
C16_Witness ==
    /\ last.op = "sync_all"
    /\ ~files[last.h].can_write
    /\ Len(Data(last.h)) > 0

\* the host whose task made the call that is returning
Caller(l) == IF l.op \in {"open", "create", "local_handle"} THEN l.node
                                                            ELSE files[l.h].node

\* C11: a create, write_all_at or set_len of one host leaves the path map
\* and the bytes of every file of every other host unchanged; an open on a
\* host of a path that create was never called for on that host returns
\* NotFound, also when another host created it; local_handle of an address
\* that has a handle already leaves that host's files as they are.
C11_Step ==
    (last = NoCall) =>
        /\ \A b \in Hosts :
               (last'.op \in {"create", "write_all_at", "set_len"}
                   /\ Caller(last') # b) =>
               /\ fs'[b] = fs[b]
               /\ \A p \in Paths : fs[b][p] # 0 =>
                      inodes'[fs[b][p]] = inodes[fs[b][p]]
        /\ (last'.op = "open" /\ <<last'.node, last'.path>> \notin created) =>
               last'.res = "NotFound"
        /\ (last'.op = "local_handle" /\ last'.node \in handles) =>
               (fs' = fs /\ inodes' = inodes)

C11_Isolation == [][C11_Step]_vars

\* an open that returned NotFound on one host for a path that another host
\* created and wrote
C11_Witness ==
    /\ last.op = "open"
    /\ last.res = "NotFound"
    /\ \E a \in Hosts \ {last.node} :
           /\ fs[a][last.path] # 0
           /\ Len(inodes[fs[a][last.path]].data) > 0

\* task w holds the write lock of its INode
Writing(w) ==
    tasks[w].op \in {"write_all_at", "set_len"}
        /\ tasks[w].pc \in {"body", "extend", "ret"}

\* the bytes the INode holds once the call of writing task w has returned
Written(w) ==
    IF tasks[w].op = "set_len"
    THEN Resize(tasks[w].old, tasks[w].len)
    ELSE WriteAllAt(tasks[w].old, tasks[w].buf, tasks[w].off).data

\* the byte vectors of INode i as they are before or after whole calls
Whole(i) ==
    IF \E w \in Tasks : Writing(w) /\ INodeOf(w) = i
    THEN UNION {{tasks[w].old, Written(w)} :
                    w \in {u \in Tasks : Writing(u) /\ INodeOf(u) = i}}
    ELSE {inodes[i].data}

\* C12: in every interleaving of the tasks' statements, what read_at or
\* fs::read returns is what it would return on the bytes before or after a
\* whole write_all_at or set_len, never on the bytes in the middle of one;
\* and a write_all_at leaves the bytes that it alone would leave, so two
\* writes do not interleave.
C12_Step ==
    \A t \in Tasks :
        /\ (tasks[t].pc = "body" /\ tasks'[t].pc = "ret"
                /\ tasks[t].op \in {"read_at", "read"}) =>
               \E d \in Whole(INodeOf(t)) :
                   tasks'[t].out = IF tasks[t].op = "read" THEN d
                                   ELSE ReadAt(d, tasks[t].len, tasks[t].off).out
        /\ (Writing(t) /\ tasks'[t].pc = "ret") =>
               inodes'[INodeOf(t)].data = Written(t)
        /\ Writing(t) => \A u \in Tasks \ {t} :
               ~(Writing(u) /\ INodeOf(u) = INodeOf(t))

C12_Atomic == [][C12_Step]_vars

\* a read_at waits for the lock while a write_all_at has overwritten the
\* old bytes and not yet appended the rest
C12_Witness ==
    \E w \in Tasks, r \in Tasks :
        /\ tasks[w].pc = "extend"
        /\ inodes[INodeOf(w)].data \notin {tasks[w].old, Written(w)}
        /\ tasks[r].pc = "lock"
        /\ tasks[r].op = "read_at"
        /\ tasks[r].len > 0

C18_Terminates == s3.loop.on ~> ~s3.loop.on

\* every upload pending in service sv is pending in tv, with the same parts
KeepsUploads(sv, tv) ==
    \A b \in DOMAIN sv.storage : \A k \in DOMAIN sv.storage[b] :
        \A u \in DOMAIN sv.storage[b][k].parts :
            /\ b \in DOMAIN tv.storage
            /\ k \in DOMAIN tv.storage[b]
            /\ u \in DOMAIN tv.storage[b][k].parts
            /\ tv.storage[b][k].parts[u] = sv.storage[b][k].parts[u]

\* C19: the id that create_multipart_upload returns was not pending for
\* the object when it was drawn, and it comes with no parts; no step of
\* create_multipart_upload removes a pending upload or changes its parts.
\* No other request runs between the steps of one call (the Mutex).
C19_Step ==
    /\ (s3.loop.on /\ s3'.reply.op = "create_multipart_upload") =>
           LET old == s3.storage[s3.loop.bucket][s3.loop.key].parts
               new == s3'.storage[s3.loop.bucket][s3.loop.key].parts
               id == s3'.reply.upload_id
           IN  /\ s3'.reply.res = "Ok"
               /\ id \notin DOMAIN old
               /\ DOMAIN new = DOMAIN old \cup {id}
               /\ new[id] = <<>>
    /\ (s3.loop.on \/ s3'.loop.on) => KeepsUploads(s3, s3')
    /\ s3.loop.on =>
           (s3'.loop.on \/ s3'.reply.op = "create_multipart_upload")

C19_FreshUploadId == [][C19_Step]_vars

\* an upload id was handed out for an object that has another upload
\* pending with a part in it
C19_Witness ==
    /\ s3.reply.op = "create_multipart_upload"
    /\ s3.reply.res = "Ok"
    /\ \E u \in DOMAIN s3.storage[s3.reply.bucket][s3.reply.key].parts :
           /\ u # s3.reply.upload_id
           /\ Len(s3.storage[s3.reply.bucket][s3.reply.key].parts[u]) > 0

\* the object requests, and the ones among them that name an upload
ObjectRequests == {"create_multipart_upload", "upload_part",
                   "complete_multipart_upload", "abort_multipart_upload",
                   "get_object", "put_object", "delete_object",
                   "delete_objects", "head_object", "list_objects_v2"}
UploadRequests == {"upload_part", "complete_multipart_upload",
                   "abort_multipart_upload"}

\* reply q answers a request that names something storage does not hold: a
\* bucket, or for the upload requests a key or an upload id
NamesMissing(sv, q) ==
    \/ q.bucket \notin DOMAIN sv.storage
    \/ /\ q.op \in UploadRequests
       /\ \/ q.key \notin DOMAIN sv.storage[q.bucket]
          \/ q.id \notin DOMAIN sv.storage[q.bucket][q.key].parts

\* C20: an object request that names a bucket that does not exist, and an
\* upload_part, complete_multipart_upload or abort_multipart_upload that
\* names a key or an upload id that does not exist, returns an error and
\* leaves storage as it was.
C20_Step ==
    (Ready(s3) /\ s3'.reply.op \in ObjectRequests
        /\ NamesMissing(s3, s3'.reply)) =>
        /\ s3'.reply.res \notin {"Ok", "Panic"}
        /\ s3'.storage = s3.storage

C20_MissingIsError == [][C20_Step]_vars

\* an upload_part was refused for an upload id that its object, which has
\* another upload pending, does not hold
C20_Witness ==
    /\ s3.reply.op = "upload_part"
    /\ s3.reply.res = "NoSuchUpload"
    /\ DOMAIN s3.storage[s3.reply.bucket][s3.reply.key].parts # {}

\* C23: create_bucket of a name that storage holds does not return: it
\* panics, and the bucket keeps its objects; create_bucket of a new name
\* adds an empty bucket and leaves every other bucket as it was.
C23_Step ==
    (Ready(s3) /\ s3'.reply.op = "create_bucket") =>
        LET name == s3'.reply.bucket
        IN  IF name \in DOMAIN s3.storage
            THEN s3'.reply.res = "Panic" /\ s3'.storage = s3.storage
            ELSE /\ s3'.reply.res = "Ok"
                 /\ DOMAIN s3'.storage = DOMAIN s3.storage \cup {name}
                 /\ s3'.storage[name] = EmptyMap
                 /\ \A b \in DOMAIN s3.storage : s3'.storage[b] = s3.storage[b]

C23_UniqueBuckets == [][C23_Step]_vars

\* create_bucket was called for a bucket that holds an object
C23_Witness ==
    /\ s3.reply.op = "create_bucket"
    /\ s3.reply.res = "Panic"
    /\ DOMAIN s3.storage[s3.reply.bucket] # {}

\* C21: get_bucket_lifecycle_configuration and
\* put_bucket_lifecycle_configuration for a bucket that storage does not
\* hold return an error, and leave storage and lifecycle as they were.
C21_Step ==
    (Ready(s3)
        /\ s3'.reply.op \in {"get_bucket_lifecycle_configuration",
                             "put_bucket_lifecycle_configuration"}
        /\ s3'.reply.bucket \notin DOMAIN s3.storage) =>
        /\ s3'.reply.res \notin {"Ok", "Panic"}
        /\ s3'.storage = s3.storage
        /\ s3'.lifecycle = s3.lifecycle

C21_LifecycleNotFound == [][C21_Step]_vars

\* the object of key in bucket is there for readers: it is in the map and
\* completed
Visible(sv, bucket, key) ==
    /\ bucket \in DOMAIN sv.storage
    /\ key \in DOMAIN sv.storage[bucket]
    /\ sv.storage[bucket][key].completed

\* the elements of a sequence
Range(seq) == {seq[i] : i \in 1..Len(seq)}

\* C29: in an existing bucket, get_object without range and part number
\* returns the stored body of a visible object and NoSuchKey otherwise, and
\* head_object returns NotFound in exactly the states where get_object
\* returns NoSuchKey.  An object becomes visible, with the body sent, by a
\* put_object, and visible by a complete_multipart_upload with a part list;
\* it stops being visible by a delete_object or delete_objects of its key
\* when it was visible; no other step changes whether it is visible or the
\* body of a visible object.
C29_Step ==
    LET q == s3'.reply
    IN  \A b \in DOMAIN s3.storage : \A k \in Keys :
            LET here == q.bucket = b /\ q.key = k /\ q.res = "Ok"
                deleted == \/ q.op = "delete_object" /\ here
                           \/ /\ q.op = "delete_objects"
                              /\ q.bucket = b /\ q.res = "Ok"
                              /\ k \in Range(q.keys)
            IN  /\ (q.op = "get_object" /\ q.bucket = b /\ q.key = k
                        /\ q.range = NoRange /\ q.part_number = NoPart) =>
                       IF Visible(s3, b, k)
                       THEN q.res = "Ok" /\ q.body = s3.storage[b][k].body
                       ELSE q.res = "NoSuchKey"
                /\ (q.op = "head_object" /\ q.bucket = b /\ q.key = k) =>
                       IF Visible(s3, b, k) THEN q.res = "Ok"
                                            ELSE q.res = "NotFound"
                /\ IF q.op = "put_object" /\ here
                   THEN Visible(s3', b, k) /\ s3'.storage[b][k].body = q.sent
                   ELSE IF q.op = "complete_multipart_upload" /\ here
                            /\ q.multipart.some
                   THEN Visible(s3', b, k)
                   ELSE IF deleted /\ Visible(s3, b, k)
                   THEN ~Visible(s3', b, k)
                   ELSE /\ Visible(s3', b, k) = Visible(s3, b, k)
                        /\ Visible(s3, b, k) =>
                               s3'.storage[b][k].body = s3.storage[b][k].body

C22_Step ==
    (Ready(s3) /\ s3'.reply.op = "get_object"
        /\ s3'.reply.part_number.some /\ s3'.reply.range = NoRange
        /\ Visible(s3, s3'.reply.bucket, s3'.reply.key)) =>
        s3'.reply.res \notin {"Ok", "Panic"}

C22_PartNumberNotSupported == [][C22_Step]_vars

\* every completed part of the list selects an uploaded part
AllMatch(parts, multipart) ==
    \A i \in 1..Len(multipart) : Selected(parts, multipart[i]) # 0

\* the bodies of the uploaded parts that the completed parts of a list
\* select, one after the other in the order of the list
RECURSIVE Bodies_of(_, _)
Bodies_of(parts, multipart) ==
    IF multipart = <<>> THEN <<>>
    ELSE parts[Selected(parts, Head(multipart))].body
             \o Bodies_of(parts, Tail(multipart))

\* C28: after a complete_multipart_upload with a part list, each part of
\* which selects an uploaded part, has returned Ok, the object is visible
\* and its body is the bodies of the selected parts in ascending order of
\* part number, in whatever order the parts were uploaded.
C28_Step ==
    LET q == s3'.reply
    IN  (Ready(s3) /\ q.op = "complete_multipart_upload" /\ q.res = "Ok"
            /\ q.multipart.some
            /\ AllMatch(s3.storage[q.bucket][q.key].parts[q.id],
                        q.multipart.parts)) =>
            /\ Visible(s3', q.bucket, q.key)
            /\ s3'.storage[q.bucket][q.key].body =
                   Bodies_of(s3.storage[q.bucket][q.key].parts[q.id],
                             sort_by_key(q.multipart.parts))

C28_AscendingParts == [][C28_Step]_vars

\* C30: a complete_multipart_upload with a part list, some part of which
\* selects no uploaded part of the upload, returns an error, keeps the
\* upload pending with its parts and leaves the object as it was.
C30_Step ==
    LET q == s3'.reply
    IN  (Ready(s3) /\ q.op = "complete_multipart_upload"
            /\ q.multipart.some
            /\ q.bucket \in DOMAIN s3.storage
            /\ q.key \in DOMAIN s3.storage[q.bucket]
            /\ q.id \in DOMAIN s3.storage[q.bucket][q.key].parts
            /\ ~AllMatch(s3.storage[q.bucket][q.key].parts[q.id],
                         q.multipart.parts)) =>
            /\ q.res \notin {"Ok", "Panic"}
            /\ s3'.storage = s3.storage

C30_UnmatchedPartIsError == [][C30_Step]_vars

\* C26: the rate that the builder holds and the rate that serve hands to
\* the service are within 0.0..=1.0, and a timeout_rate call with another
\* rate panics and configures nothing.
C26_RateInRange ==
    /\ contains(etcd.server.timeout_rate)
    /\ contains(etcd.service.timeout_rate)

\* a server serves with a rate that timeout_rate has set
C26_Witness ==
    etcd.state = "serving" /\ etcd.service.timeout_rate = F32(10)

\* the responses on a connection that answer a request: all but the
\* LeaderResponses that an observe stream sends
Replies(cn) == SelectSeq(cn.outbox, LAMBDA r : ~r.event)

\* C25: on every connection the handler receives the requests in the order
\* the client sent them, receives a request only when each request before
\* it has its response, and sends the responses in the order of the
\* requests, at most one for each.
C25_Step ==
    \A c \in Conns :
        LET cn == etcd.conn[c]
            after == etcd'.conn[c]
        IN  /\ Len(after.received) = Len(cn.received) + 1 =>
                   Len(Replies(cn)) = Len(cn.received)
            /\ Len(Replies(after)) <= Len(after.received)
            /\ \A i \in 1..Len(Replies(after)) :
                   Replies(after)[i].to = after.received[i].id
            /\ \A i \in 1..Len(after.received) : after.received[i].id = i

C25_OneResponseInOrder == [][C25_Step]_vars

\* a handler has received two requests and has sent a response to each
C25_Witness ==
    \E c \in Conns :
        /\ Len(etcd.conn[c].received) = 2
        /\ Len(Replies(etcd.conn[c])) = 2

\* C24: once the client's side of a connection that has a handler is
\* closed, the handler task of the connection finishes.
C24_HandlerFinishes ==
    \A c \in Conns :
        (etcd.conn[c].client = "closed" /\ etcd.conn[c].pc # "none")
            ~> (etcd.conn[c].pc = "done")

\* C27: two runs of one simulation with the same calls hold the same
\* response metadata, date header included, and the same session name.
C27_NoWallClock ==
    /\ rpc[1].response = rpc[2].response
    /\ rpc[1].session = rpc[2].session

\* C37: write_all_at, set_len and sync_all through a File that open has
\* returned leave every INode as it was.
C37_Step ==
    (/\ last = NoCall
     /\ last'.op \in {"write_all_at", "set_len", "sync_all"}
     /\ files[last'.h].via = "open") => inodes' = inodes

C37_OpenedIsReadOnly == [][C37_Step]_vars

\* C31: list_objects_v2 returns, in ascending key order, the keys of the
\* completed objects of the bucket that start with the prefix, and with no
\* prefix those of all its completed objects.
C31_Step ==
    LET q == s3'.reply
    IN  (Ready(s3) /\ q.op = "list_objects_v2" /\ q.res = "Ok") =>
            q.keys = iter({k \in DOMAIN s3.storage[q.bucket] :
                              /\ Visible(s3, q.bucket, k)
                              /\ starts_with(k, q.prefix.str)})

C31_ListsCompleted == [][C31_Step]_vars

\* C32: the content_length that head_object reports and the sizes that
\* list_objects_v2 reports for completed objects are the lengths of their
\* bodies.
C32_Step ==
    LET q == s3'.reply
    IN  /\ (Ready(s3) /\ q.op = "head_object" /\ q.res = "Ok") =>
               q.content_length = Len(s3.storage[q.bucket][q.key].body)
        /\ (Ready(s3) /\ q.op = "list_objects_v2" /\ q.res = "Ok") =>
               \A i \in 1..Len(q.keys) :
                   Visible(s3, q.bucket, q.keys[i]) =>
                       q.sizes[i] = Len(s3.storage[q.bucket][q.keys[i]].body)

C32_ContentLength == [][C32_Step]_vars

\* C33: an upload_part, complete_multipart_upload or abort_multipart_upload
\* that names an upload which a complete or an abort has ended, and which
\* was not issued again since, returns the NoSuchUpload error; and an ended
\* upload is pending nowhere.
C33_Step ==
    LET q == s3'.reply
    IN  /\ (/\ Ready(s3)
            /\ q.op \in {"upload_part", "complete_multipart_upload",
                         "abort_multipart_upload"}
            /\ <<q.bucket, q.key, q.id>> \in s3.ended) =>
               q.res = "NoSuchUpload"
        /\ \A u \in s3'.ended :
               (u[1] \in DOMAIN s3'.storage
                   /\ u[2] \in DOMAIN s3'.storage[u[1]]) =>
                   u[3] \notin DOMAIN s3'.storage[u[1]][u[2]].parts

C33_EndedIsNoSuchUpload == [][C33_Step]_vars

\* the uploads pending on a key and their parts; none for a key without
\* entry
Pending(sv, bucket, key) ==
    IF key \in DOMAIN sv.storage[bucket] THEN sv.storage[bucket][key].parts
    ELSE EmptyMap

\* C34: delete_object on a completed object makes it not visible and keeps
\* the uploads pending on its key with their parts, delete_object on a key
\* that is missing or not completed changes nothing, both return Ok and
\* leave the other keys alone; and a complete_multipart_upload with a part
\* list that returns Ok makes the object visible, deleted before or not.
C34_Step ==
    LET q == s3'.reply
    IN  /\ (/\ Ready(s3) /\ q.op = "delete_object"
            /\ q.bucket \in DOMAIN s3.storage) =>
               /\ q.res = "Ok"
               /\ ~Visible(s3', q.bucket, q.key)
               /\ Pending(s3', q.bucket, q.key) = Pending(s3, q.bucket, q.key)
               /\ ~Visible(s3, q.bucket, q.key) => s3'.storage = s3.storage
               /\ \A k \in DOMAIN s3.storage[q.bucket] \ {q.key} :
                      /\ k \in DOMAIN s3'.storage[q.bucket]
                      /\ s3'.storage[q.bucket][k] = s3.storage[q.bucket][k]
        /\ (/\ Ready(s3) /\ q.op = "complete_multipart_upload"
            /\ q.res = "Ok" /\ q.multipart.some) =>
               Visible(s3', q.bucket, q.key)

C34_DeleteKeepsUploads == [][C34_Step]_vars

\* a completed object was deleted while an upload with a part was pending
\* on its key
C34_Witness ==
    /\ s3.reply.op = "delete_object"
    /\ s3.reply.res = "Ok"
    /\ s3.reply.bucket \in DOMAIN s3.storage
    /\ s3.reply.key \in DOMAIN s3.storage[s3.reply.bucket]
    /\ ~s3.storage[s3.reply.bucket][s3.reply.key].completed
    /\ s3.storage[s3.reply.bucket][s3.reply.key].body = <<>>
    /\ \E id \in DOMAIN s3.storage[s3.reply.bucket][s3.reply.key].parts :
           s3.storage[s3.reply.bucket][s3.reply.key].parts[id] # <<>>

\* what get_object, head_object and list_objects_v2 return in a state of
\* the service, for every key and every prefix
Answers(sv) ==
    [get |-> [b \in Buckets |-> [k \in Keys |->
                 LET a == get_object(sv, b, k, NoRange, NoPart).reply
                 IN  <<a.res, a.body>>]],
     head |-> [b \in Buckets |-> [k \in Keys |->
                 LET a == head_object(sv, b, k).reply
                 IN  <<a.res, a.content_length>>]],
     list |-> [b \in Buckets |-> [p \in Prefixes |->
                 LET a == list_objects_v2(sv, b, p).reply
                 IN  <<a.res, a.keys, a.sizes>>]]]

\* C35: a step of create_multipart_upload or of upload_part leaves what
\* get_object, head_object and list_objects_v2 return as it was, and
\* upload_part changes nothing of the storage but the parts of the upload
\* it names.
C35_Step ==
    LET q == s3'.reply
    IN  /\ (s3.reply = NoReply
               /\ (s3'.loop.on \/ q.op \in {"create_multipart_upload",
                                            "upload_part"})) =>
               Answers(s3') = Answers(s3)
        /\ (Ready(s3) /\ q.op = "upload_part" /\ q.res = "Ok") =>
               s3.storage =
                   [s3'.storage EXCEPT ![q.bucket][q.key].parts[q.id] =
                       s3.storage[q.bucket][q.key].parts[q.id]]

C35_UploadsChangeNoAnswer == [][C35_Step]_vars

\* C36: get_object with a well-formed byte range returns Ok with a part of
\* the body or an error, whatever the range; it does not panic.
C36_Step ==
    LET q == s3'.reply
    IN  (Ready(s3) /\ q.op = "get_object" /\ q.range.form = "span"
            /\ Visible(s3, q.bucket, q.key)) =>
            /\ q.res # "Panic"
            /\ q.res = "Ok" =>
                   \E i \in 0..Len(s3.storage[q.bucket][q.key].body) :
                       \E j \in i..Len(s3.storage[q.bucket][q.key].body) :
                           q.body = SubSeq(s3.storage[q.bucket][q.key].body,
                                           i + 1, j)

C36_RangeNeverPanics == [][C36_Step]_vars

\* the keys that a Delete asks to delete, in its order
Requested(delete) ==
    LET keyed == SelectSeq(delete.items, LAMBDA i : i.some)
    IN  [n \in 1..Len(keyed) |-> keyed[n].key]

\* the service after one delete_object for each key, in order
RECURSIVE DeleteEach(_, _, _)
DeleteEach(sv, bucket, keys) ==
    IF keys = <<>> THEN sv
    ELSE DeleteEach(delete_object(sv, bucket, Head(keys)), bucket, Tail(keys))

\* C39: delete_objects on an existing bucket leaves the storage that one
\* delete_object for each requested key, in order, leaves, returns Ok and
\* lists every requested key in its output, whether the key had an object,
\* a completed one or none.
C39_Step ==
    LET q == s3'.reply
    IN  (/\ Ready(s3) /\ q.op = "delete_objects"
         /\ q.bucket \in DOMAIN s3.storage) =>
            /\ q.res = "Ok"
            /\ s3'.storage =
                   DeleteEach(s3, q.bucket, Requested(q.delete)).storage
            /\ q.keys = Requested(q.delete)

C39_DeleteObjectsIsDeleteEach == [][C39_Step]_vars

\* delete_objects has answered for two keys: one whose object it left not
\* completed under a pending upload, and one that has no entry
C39_Witness ==
    /\ s3.reply.op = "delete_objects"
    /\ s3.reply.res = "Ok"
    /\ Len(s3.reply.keys) = 2
    /\ \E i, j \in 1..2 :
           /\ s3.reply.keys[i] \in DOMAIN s3.storage[s3.reply.bucket]
           /\ DOMAIN s3.storage[s3.reply.bucket][s3.reply.keys[i]].parts # {}
           /\ s3.reply.keys[j] \notin DOMAIN s3.storage[s3.reply.bucket]

\* the key-values of the LeaderResponses that a connection has taken
Forwarded(cn) ==
    LET sent == SelectSeq(cn.outbox, LAMBDA r : r.event)
    IN  [i \in 1..Len(sent) |-> sent[i].kv]

\* the key-values of the Put events that stream.recv() has returned
PutsTaken(cn) ==
    LET taken == SubSeq(cn.events, 1, Len(cn.events) - Len(cn.stream))
        puts == SelectSeq(taken, LAMBDA e : e.event_type = "Put")
    IN  [i \in 1..Len(puts) |-> puts[i].kv]

\* C38: a handler that observes has sent to the client, as responses to
\* the Observe request and in the order of the stream, the Put events that
\* it took from the stream, but the one it is about to send, and none of
\* the other events; it receives no request and sends no other response;
\* and it goes back to the stream only after a send that succeeded, and
\* ends only at a send that failed, returning Ok.
C38_Step ==
    \A c \in Conns :
        LET cn == etcd.conn[c]
            after == etcd'.conn[c]
        IN  /\ after.pc = "stream" => Forwarded(after) = PutsTaken(after)
            /\ (after.pc = "stream_send"
                   \/ (after.pc = "done" /\ after.response.event)) =>
                   Forwarded(after) \o <<after.response.kv>> = PutsTaken(after)
            /\ \A i \in 1..Len(after.outbox) :
                   after.outbox[i].event =>
                       after.outbox[i].to = after.request.id
            /\ cn.pc \in {"stream", "stream_send"} =>
                   /\ after.pc \in {"stream", "stream_send", "done"}
                   /\ after.received = cn.received
                   /\ Replies(after) = Replies(cn)
                   /\ after.pc = "done" =>
                          (cn.client = "closed" /\ after.result = "Ok")
            /\ (cn.pc = "stream_send" /\ after.pc = "stream") =>
                   (cn.client = "open" /\ after.outbox # cn.outbox)

C38_ObserveForwardsPuts == [][C38_Step]_vars

\* an observing handler has taken three events from its stream and has
\* forwarded two of them
C38_Witness ==
    \E c \in Conns :
        /\ etcd.conn[c].pc = "stream"
        /\ Len(etcd.conn[c].events) - Len(etcd.conn[c].stream) = 3
        /\ Len(Forwarded(etcd.conn[c])) = 2
====
